---- MODULE Spec2Model ----
(***************************************************************************)
(* A model of the document-search tool of School-Tools                     *)
(* (src/document_search): the pattern compiler and matcher, the file       *)
(* collector, the extraction adapters, the thread-pool fan-out/fan-in of   *)
(* search_recursive, execute_search and the exporters.                     *)
(*                                                                         *)
(* Strings are sequences of one-character strings.  Offsets are Python's:  *)
(* 0-based, a span <<s, e>> is the slice text[s:e].                        *)
(***************************************************************************)
EXTENDS Integers, Sequences, FiniteSets, TLC

(***************************************************************************)
(* Bounds of the model.                                                    *)
(***************************************************************************)
MaxTermLen == 2
MaxTextLen == 3
\* Inputs of the text utilities.
MaxWrapLen == 4
MaxWidth == 3
MaxNameLen == 3

(***************************************************************************)
(* Characters.  "a" and "A" are word characters (\w), " " and "|" are not. *)
(* "|" is the one regular-expression metacharacter of the model.           *)
(***************************************************************************)
Chars == {"a", "A", " ", "|"}
WordChars == {"a", "A"}

Lower(c) == IF c = "A" THEN "a" ELSE c

StringsUpTo(n) == UNION {[1..k -> Chars] : k \in 0..n}
Terms == StringsUpTo(MaxTermLen) \ {<<>>}
Texts == StringsUpTo(MaxTextLen)

\* Optional values: None, or a value that is given.
None == [some |-> FALSE]
Some(v) == [some |-> TRUE, v |-> v]

Min(a, b) == IF a <= b THEN a ELSE b
Max(a, b) == IF a >= b THEN a ELSE b

\* Python's text[s:e] for 0 <= s <= e <= len(text).
Slice(text, s, e) == SubSeq(text, s + 1, e)

LowerStr(text) == [i \in 1..Len(text) |-> Lower(text[i])]

(***************************************************************************)
(* The pattern source is a sequence of tokens: a literal character, the    *)
(* alternation operator, or the zero-width word boundary \b.               *)
(***************************************************************************)
Lit(c) == [k |-> "lit", c |-> c]
AltTok == [k |-> "alt", c |-> ""]
WbTok == [k |-> "wb", c |-> ""]

\* re.escape: every character stands for itself.
re_escape(term) == [i \in 1..Len(term) |-> Lit(term[i])]

\* The term read as a regular expression: "|" is the alternation operator.
regex_source(term) ==
    [i \in 1..Len(term) |-> IF term[i] = "|" THEN AltTok ELSE Lit(term[i])]

\* rf"\b{term}\b": the boundaries are concatenated around the source text.
wrap_whole_word(src) == <<WbTok>> \o src \o <<WbTok>>

\* The parse of re.compile: alternation binds loosest, so the source splits
\* into its alternatives at every "|" operator.
RECURSIVE SplitAlternatives(_)
SplitAlternatives(src) ==
    IF \A i \in 1..Len(src) : src[i].k # "alt"
    THEN <<src>>
    ELSE LET i == CHOOSE j \in 1..Len(src) :
                      src[j].k = "alt" /\ \A h \in 1..(j - 1) : src[h].k # "alt"
         IN <<SubSeq(src, 1, i - 1)>> \o SplitAlternatives(SubSeq(src, i + 1, Len(src)))

re_compile(src, ignorecase) == [alts |-> SplitAlternatives(src), ignorecase |-> ignorecase]

\* WordSearcher._compile_pattern with flags = re.IGNORECASE whatever case_sensitive is.
compile_pattern_always_ignorecase(search_term, case_sensitive, whole_word, use_regex) ==
    LET term == IF use_regex THEN regex_source(search_term) ELSE re_escape(search_term)
    IN re_compile(IF whole_word THEN wrap_whole_word(term) ELSE term, TRUE)

\* WordSearcher._compile_pattern
compile_pattern(search_term, case_sensitive, whole_word, use_regex) ==
    LET term == IF use_regex THEN regex_source(search_term) ELSE re_escape(search_term)
    IN re_compile(IF whole_word THEN wrap_whole_word(term) ELSE term, ~case_sensitive)

(***************************************************************************)
(* The matcher of the re module on these patterns.                         *)
(***************************************************************************)
\* Is the i-th character (1-based) of text a word character?
WordAt(text, i) == i >= 1 /\ i <= Len(text) /\ text[i] \in WordChars

\* \b at offset p: exactly one of the characters around p is a word character.
AtBoundary(text, p) == WordAt(text, p) # WordAt(text, p + 1)

CharMatches(c, t, ignorecase) == c = t \/ (ignorecase /\ Lower(c) = Lower(t))

\* The end offset of the match of one alternative at offset p, or -1.
RECURSIVE MatchSeq(_, _, _, _)
MatchSeq(atoms, text, p, ignorecase) ==
    IF atoms = <<>> THEN p
    ELSE LET a == Head(atoms)
         IN IF a.k = "wb"
            THEN IF AtBoundary(text, p) THEN MatchSeq(Tail(atoms), text, p, ignorecase)
                 ELSE -1
            ELSE IF p < Len(text) /\ CharMatches(a.c, text[p + 1], ignorecase)
                 THEN MatchSeq(Tail(atoms), text, p + 1, ignorecase)
                 ELSE -1

\* The end offset of the match at offset p: the first alternative that matches
\* (and, after an empty match at p, that is not empty), or -1.
RECURSIVE MatchAlts(_, _, _, _, _)
MatchAlts(alts, text, p, ignorecase, must_advance) ==
    IF alts = <<>> THEN -1
    ELSE LET e == MatchSeq(Head(alts), text, p, ignorecase)
         IN IF e >= 0 /\ (~must_advance \/ e > p) THEN e
            ELSE MatchAlts(Tail(alts), text, p, ignorecase, must_advance)

MatchAt(pattern, text, p, must_advance) ==
    MatchAlts(pattern.alts, text, p, pattern.ignorecase, must_advance)

\* The leftmost match starting at offset pos or later, as <<s, e>>, or <<-1, -1>>.
RECURSIVE SearchFrom(_, _, _, _, _)
SearchFrom(pattern, text, s, pos, must_advance) ==
    IF s > Len(text) THEN <<-1, -1>>
    ELSE LET e == MatchAt(pattern, text, s, must_advance /\ s = pos)
         IN IF e >= 0 THEN <<s, e>>
            ELSE SearchFrom(pattern, text, s + 1, pos, must_advance)

\* A scan that resumes one character after the start of the last match.
RECURSIVE FindIterOverlapping(_, _, _, _)
FindIterOverlapping(pattern, text, pos, must_advance) ==
    LET m == SearchFrom(pattern, text, pos, pos, must_advance)
    IN IF m[1] < 0 THEN <<>>
       ELSE <<m>> \o FindIterOverlapping(pattern, text, m[1] + 1, FALSE)

\* pattern.finditer(text): the non-overlapping matches from left to right.
RECURSIVE FindIter(_, _, _, _)
FindIter(pattern, text, pos, must_advance) ==
    LET m == SearchFrom(pattern, text, pos, pos, must_advance)
    IN IF m[1] < 0 THEN <<>>
       ELSE <<m>> \o FindIter(pattern, text, m[2], m[2] = m[1])

\* WordSearcher._find_matches_in_text
find_matches_in_text(pattern, text) == FindIter(pattern, text, 0, FALSE)

\* WordSearcher._search_text
search_text(pattern, text) == SearchFrom(pattern, text, 0, 0, FALSE)[1] >= 0

(***************************************************************************)
(* Documents.  A text unit (a paragraph, a table cell, a page) either      *)
(* yields its text or raises when it is read.                              *)
(***************************************************************************)
U(text) == [raises |-> FALSE, hangs |-> FALSE, text |-> text]
Boom == [raises |-> TRUE, hangs |-> FALSE, text |-> <<>>]

\* A unit whose extraction never returns.
Stall == [raises |-> FALSE, hangs |-> TRUE, text |-> <<>>]

\* A section of a word-processor document: the paragraphs of its header and
\* of its footer.
Section(header, footer) == [header |-> header, footer |-> footer]

\* A word-processor document with sections (doc.sections).
DocxSections(paragraphs, tables, sections) ==
    [kind |-> "docx", open_fails |-> FALSE, paragraphs |-> paragraphs,
     tables |-> tables, pages |-> <<>>, sections |-> sections]
Docx(paragraphs, tables) == DocxSections(paragraphs, tables, <<>>)
Pdf(pages) ==
    [kind |-> "pdf", open_fails |-> FALSE, paragraphs |-> <<>>,
     tables |-> <<>>, pages |-> pages, sections |-> <<>>]
Corrupt(kind) ==
    [kind |-> kind, open_fails |-> TRUE, paragraphs |-> <<>>,
     tables |-> <<>>, pages |-> <<>>, sections |-> <<>>]
NoDoc == [kind |-> "none", open_fails |-> FALSE, paragraphs |-> <<>>,
          tables |-> <<>>, pages |-> <<>>, sections |-> <<>>]

\* The location label of a unit: f"Paragraph {i + 1}",
\* f"Table {t_idx + 1}, Row {r_idx + 1}, Column {c_idx + 1}", f"Page {page_num + 1}".
Label(kind, n) == [kind |-> kind, n |-> n]

\* models.SearchMatch
SearchMatch(file_path, context, page_or_section, match_positions) ==
    [file_path |-> file_path, context |-> context,
     page_or_section |-> page_or_section, match_positions |-> match_positions]

RECURSIVE Flatten(_)
Flatten(seqs) == IF seqs = <<>> THEN <<>> ELSE Head(seqs) \o Flatten(Tail(seqs))

\* enumerate(doc.paragraphs)
ParagraphUnits(doc) ==
    [i \in 1..Len(doc.paragraphs) |->
        [label |-> Label("Paragraph", <<i>>), unit |-> doc.paragraphs[i]]]

\* enumerate(doc.tables), enumerate(table.rows), enumerate(row.cells)
TableUnits(doc) ==
    Flatten([t \in 1..Len(doc.tables) |->
        Flatten([r \in 1..Len(doc.tables[t]) |->
            [c \in 1..Len(doc.tables[t][r]) |->
                [label |-> Label("Table", <<t, r, c>>), unit |-> doc.tables[t][r][c]]]])])

\* Pages labelled by their enumerate index.
PageUnitsZeroBased(doc) ==
    [i \in 1..Len(doc.pages) |->
        [label |-> Label("Page", <<i - 1>>), unit |-> doc.pages[i]]]

\* enumerate(reader.pages)
PageUnits(doc) ==
    [i \in 1..Len(doc.pages) |-> [label |-> Label("Page", <<i>>), unit |-> doc.pages[i]]]

\* The body of the try block: the units are scanned in order; a unit whose
\* text matches appends a SearchMatch to matches; a unit that raises ends the
\* scan with the matches appended so far.  skip_empty is the "if text and"
\* test of search_pdf.
RECURSIVE ScanUnits(_, _, _, _)
ScanUnits(pattern, file_path, units, skip_empty) ==
    IF units = <<>> THEN [matches |-> <<>>, raised |-> FALSE]
    ELSE LET u == Head(units)
         IN IF u.unit.raises THEN [matches |-> <<>>, raised |-> TRUE]
            ELSE LET text == u.unit.text
                     rest == ScanUnits(pattern, file_path, Tail(units), skip_empty)
                     hit == (~skip_empty \/ text # <<>>) /\ search_text(pattern, text)
                     here == IF hit
                             THEN <<SearchMatch(file_path, text, u.label,
                                                find_matches_in_text(pattern, text))>>
                             ELSE <<>>
                 IN [matches |-> here \o rest.matches, raised |-> rest.raised]

\* The outcome of an adapter: the list it returns and the lines it prints.
Outcome(matches, printed) == [matches |-> matches, printed |-> printed]

\* WordSearcher.search_document
search_document(pattern, file_path, doc, docx_available) ==
    IF ~docx_available
    THEN Outcome(<<>>, <<"Error: python-docx is not installed.">>)
    ELSE IF doc.open_fails \/ doc.kind # "docx"
    THEN Outcome(<<>>, <<"Error processing">>)
    ELSE LET r == ScanUnits(pattern, file_path,
                            ParagraphUnits(doc) \o TableUnits(doc), FALSE)
         IN Outcome(r.matches, IF r.raised THEN <<"Error processing">> ELSE <<>>)

\* A search_pdf that reads the document whether or not pypdf was found.
search_pdf_unguarded(pattern, file_path, doc, pdf_available) ==
    IF doc.open_fails \/ doc.kind # "pdf"
    THEN Outcome(<<>>, <<"Error processing">>)
    ELSE LET r == ScanUnits(pattern, file_path, PageUnits(doc), TRUE)
         IN Outcome(r.matches, IF r.raised THEN <<"Error processing">> ELSE <<>>)

\* WordSearcher.search_pdf
search_pdf(pattern, file_path, doc, pdf_available) ==
    IF ~pdf_available
    THEN Outcome(<<>>, <<"Error: pypdf is not installed.">>)
    ELSE IF doc.open_fails \/ doc.kind # "pdf"
    THEN Outcome(<<>>, <<"Error processing">>)
    ELSE LET r == ScanUnits(pattern, file_path, PageUnits(doc), TRUE)
         IN Outcome(r.matches, IF r.raised THEN <<"Error processing">> ELSE <<>>)

(***************************************************************************)
(* Text utilities (utils.py) and html.escape.                              *)
(***************************************************************************)
DefaultWrapWidth == 100
ExportNameLength == 30

\* html.escape(s): & < > " ' are replaced by their entities.
HtmlEscapeChar(c) ==
    CASE c = "&" -> <<"&", "a", "m", "p", ";">>
      [] c = "<" -> <<"&", "l", "t", ";">>
      [] c = ">" -> <<"&", "g", "t", ";">>
      [] c = "\"" -> <<"&", "q", "u", "o", "t", ";">>
      [] c = "'" -> <<"&", "#", "x", "2", "7", ";">>
      [] OTHER -> <<c>>

html_escape(text) == Flatten([i \in 1..Len(text) |-> HtmlEscapeChar(text[i])])

\* Python's s[:e] and s[b:] for non-negative offsets: clamped to the length.
Prefix(str, e) == SubSeq(str, 1, Min(e, Len(str)))
Suffix_(str, b) == SubSeq(str, Min(b, Len(str)) + 1, Len(str))

MarkOpen == <<"<", "m", "a", "r", "k", ">">>
MarkClose == <<"<", "/", "m", "a", "r", "k", ">">>

\* Tuple order of Python: (s1, e1) > (s2, e2).
SpanGreater(m, n) == m[1] > n[1] \/ (m[1] = n[1] /\ m[2] > n[2])

\* sorted(match_positions, reverse=True)
RECURSIVE SortedReverse(_)
SortedReverse(spans) ==
    IF spans = <<>> THEN <<>>
    ELSE LET i == CHOOSE j \in 1..Len(spans) :
                      /\ \A h \in 1..Len(spans) : ~SpanGreater(spans[h], spans[j])
                      /\ \A h \in 1..(j - 1) : spans[h] # spans[j]
             rest == SubSeq(spans, 1, i - 1) \o SubSeq(spans, i + 1, Len(spans))
         IN <<spans[i]>> \o SortedReverse(rest)

\* The highlighting loop of export_html: the offsets of the context are
\* applied to the escaped context.
RECURSIVE MarkSpans(_, _, _)
MarkSpans(context_html, context, spans) ==
    IF spans = <<>> THEN context_html
    ELSE LET start == Head(spans)[1]
             end == Head(spans)[2]
             match_text == html_escape(Slice(context, Min(start, Len(context)),
                                             Min(end, Len(context))))
         IN MarkSpans(Prefix(context_html, start) \o MarkOpen \o match_text
                          \o MarkClose \o Suffix_(context_html, end),
                      context, Tail(spans))

HighlightHtml(context, match_positions) ==
    MarkSpans(html_escape(context), context, SortedReverse(match_positions))

IsSpace(c) == c \in {" ", "\n", "\t"}

\* text.split("\n")
RECURSIVE SplitLines(_)
SplitLines(text) ==
    IF \A i \in 1..Len(text) : text[i] # "\n" THEN <<text>>
    ELSE LET i == CHOOSE j \in 1..Len(text) :
                      text[j] = "\n" /\ \A h \in 1..(j - 1) : text[h] # "\n"
         IN <<SubSeq(text, 1, i - 1)>> \o SplitLines(SubSeq(text, i + 1, Len(text)))

\* paragraph.split(): the maximal runs of non-whitespace characters.
RECURSIVE SplitWords(_)
SplitWords(paragraph) ==
    IF paragraph = <<>> THEN <<>>
    ELSE IF IsSpace(Head(paragraph)) THEN SplitWords(Tail(paragraph))
    ELSE LET stops == {j \in 1..Len(paragraph) : IsSpace(paragraph[j])}
             n == IF stops = {} THEN Len(paragraph)
                  ELSE (CHOOSE j \in stops : \A h \in stops : j <= h) - 1
         IN <<SubSeq(paragraph, 1, n)>> \o SplitWords(SubSeq(paragraph, n + 1, Len(paragraph)))

\* " ".join(words) and "\n".join(lines)
RECURSIVE Join(_, _)
Join(parts, sep) ==
    IF parts = <<>> THEN <<>>
    ELSE IF Len(parts) = 1 THEN parts[1]
    ELSE parts[1] \o <<sep>> \o Join(Tail(parts), sep)

\* A loop that puts all the words of a paragraph on one line.
WrapWordsOneLine(words, current_line, current_length, max_width) ==
    IF words = <<>> THEN <<>> ELSE <<Join(words, " ")>>

\* The loop over the words of one paragraph in wrap_text.
RECURSIVE WrapWords(_, _, _, _)
WrapWords(words, current_line, current_length, max_width) ==
    IF words = <<>>
    THEN IF current_line # <<>> THEN <<Join(current_line, " ")>> ELSE <<>>
    ELSE LET word == Head(words)
             word_length == Len(word)
         IN IF current_length + word_length + (IF current_line # <<>> THEN 1 ELSE 0)
                   <= max_width
            THEN WrapWords(Tail(words), Append(current_line, word),
                           current_length + (IF current_line # <<>> THEN 1 ELSE 0)
                               + word_length,
                           max_width)
            ELSE <<Join(current_line, " ")>>
                     \o WrapWords(Tail(words), <<word>>, word_length, max_width)

\* utils.wrap_text
wrap_text(text, max_width) ==
    LET paragraphs == SplitLines(text)
        lines == Flatten([i \in 1..Len(paragraphs) |->
                     IF paragraphs[i] = <<>> THEN << <<>> >>
                     ELSE WrapWords(SplitWords(paragraphs[i]), <<>>, 0, max_width)])
    IN Join(lines, "\n")

\* re.sub(r'[\\/*?:"<>|\s]', "_", filename)
SanitizeChar(c) ==
    IF c \in {"\\", "/", "*", "?", ":", "\"", "<", ">", "|"} \/ IsSpace(c) THEN "_" ELSE c

\* utils.sanitize_filename
sanitize_filename(filename, max_length) ==
    LET sanitized == [i \in 1..Len(filename) |-> SanitizeChar(filename[i])]
    IN IF Len(sanitized) > max_length
       THEN (IF max_length - 3 >= 0
             THEN Prefix(sanitized, max_length - 3)
             ELSE Prefix(sanitized, Max(0, Len(sanitized) + (max_length - 3))))
            \o <<".", ".", ".">>
       ELSE sanitized

(***************************************************************************)
(* The file system: a directory tree as a sequence of nodes; node 1 is the *)
(* root directory of the search and a path is a node's index.  The entries *)
(* of a directory are listed in index order.                               *)
(***************************************************************************)
Node(name, parent, isdir, doc) ==
    [name |-> name, parent |-> parent, isdir |-> isdir, doc |-> doc]
Dir(name, parent) == Node(name, parent, TRUE, NoDoc)

\* Path.suffix of the names of the model.
Suffix(name) ==
    CASE name \in {"a.docx", "b.docx"} -> ".docx"
      [] name \in {"b.pdf", "c.pdf"} -> ".pdf"
      [] name = "D.DOCX" -> ".DOCX"
      [] name = "E.PDF" -> ".PDF"
      [] name = "c.txt" -> ".txt"
      [] OTHER -> ""

\* str.lower() of a suffix.
\* A suffix compared as it is spelled.
KeepSuffix(suffix) == suffix

LowerSuffix(suffix) ==
    CASE suffix = ".DOCX" -> ".docx"
      [] suffix = ".PDF" -> ".pdf"
      [] OTHER -> suffix

\* A project with an excluded directory, a DOCX with a header and a footer,
\* and a PDF whose third page raises.
TreeProject ==
    << Dir("proj", 0),
       Node("a.docx", 1, FALSE,
            DocxSections(<<U(<<"a">>), U(<<" ">>), U(<<"<", "A", "a">>)>>,
                         << << <<U(<<"a">>), U(<<" ">>)>>,
                               <<U(<<"|">>), U(<<"a", " ", "a">>)>> >> >>,
                         <<Section(<<U(<<"a", "a">>)>>, <<U(<<" ">>), U(<<"A", "|">>)>>)>>)),
       Dir("venv", 1),
       Node("b.docx", 3, FALSE, Docx(<<U(<<"a">>)>>, <<>>)),
       Dir("docs", 1),
       Node("c.pdf", 5, FALSE, Pdf(<<U(<<"a">>), U(<<>>), Boom, U(<<"a">>)>>)) >>

\* The root itself carries an excluded name; a table cell raises after two
\* units matched; one document cannot be opened.
TreeVenvRoot ==
    << Dir("venv", 0),
       Node("a.docx", 1, FALSE,
            Docx(<<U(<<"A">>)>>, << << <<U(<<"a">>), Boom, U(<<"a">>)>> >> >>)),
       Dir("docs", 1),
       Dir("venv", 3),
       Node("b.pdf", 4, FALSE, Pdf(<<U(<<"a">>)>>)),
       Node("b.docx", 3, FALSE, Corrupt("docx")) >>

\* Nothing matches: the only match is below .git.
TreeNoMatch ==
    << Dir("proj", 0),
       Node("c.txt", 1, FALSE, NoDoc),
       Dir(".git", 1),
       Node("a.docx", 3, FALSE, Docx(<<U(<<"a">>)>>, <<>>)),
       Node("b.pdf", 1, FALSE, Pdf(<<U(<<" ">>), U(<<>>)>>)),
       Node("D.DOCX", 1, FALSE, Docx(<<U(<<" ", "|">>)>>, <<>>)),
       Node("E.PDF", 1, FALSE, Pdf(<<U(<<"a">>)>>)) >>

FileSystems == {TreeProject, TreeVenvRoot, TreeNoMatch}

\* The extraction of docs/a.docx never returns.
TreeHang ==
    << Dir("proj", 0),
       Dir("docs", 1),
       Node("a.docx", 2, FALSE, Docx(<<U(<<"a">>), Stall>>, <<>>)),
       Node("b.docx", 2, FALSE, Docx(<<U(<<"a">>)>>, <<>>)),
       Node("c.pdf", 2, FALSE, Pdf(<<U(<<"a">>)>>)) >>

\* The same tree with a docs/a.docx whose extraction returns.
TreeReturns ==
    [TreeHang EXCEPT ![3] = Node("a.docx", 2, FALSE,
                                 Docx(<<U(<<"a">>), U(<<" ", "a">>)>>, <<>>))]

\* os.scandir(d): the entries of directory d, in listing order.
RECURSIVE ChildrenFrom(_, _, _)
ChildrenFrom(tree, d, n) ==
    IF n > Len(tree) THEN <<>>
    ELSE (IF tree[n].parent = d THEN <<n>> ELSE <<>>) \o ChildrenFrom(tree, d, n + 1)

Children(tree, d) == ChildrenFrom(tree, d, 1)

\* fnmatch of a name against one pattern segment (POSIX: case-sensitive).
SegMatches(seg, name) ==
    CASE seg = "*" -> TRUE
      [] seg = "*.docx" -> Suffix(name) = ".docx"
      [] seg = "*.pdf" -> Suffix(name) = ".pdf"
      [] seg = "a*" -> name = "a.docx"
      [] OTHER -> FALSE

\* The entries of directory d whose name matches the segment, in listing order.
RECURSIVE MatchingFrom(_, _, _, _)
MatchingFrom(tree, d, seg, n) ==
    IF n > Len(tree) THEN <<>>
    ELSE (IF tree[n].parent = d /\ SegMatches(seg, tree[n].name) THEN <<n>> ELSE <<>>)
         \o MatchingFrom(tree, d, seg, n + 1)

Matching(tree, d, seg) == MatchingFrom(tree, d, seg, 1)

\* Path(d).glob(pattern), the pattern given as its "/"-separated segments:
\* the matching entries, depth first in listing order.
RECURSIVE Glob(_, _, _)
Glob(tree, d, segs) ==
    IF segs = <<>> THEN <<d>>
    ELSE IF ~tree[d].isdir THEN <<>>
    ELSE LET hits == Matching(tree, d, Head(segs))
         IN Flatten([i \in 1..Len(hits) |-> Glob(tree, hits[i], Tail(segs))])

\* The directories whose entries Path(d).glob(pattern) lists.
RECURSIVE GlobListed(_, _, _)
GlobListed(tree, d, segs) ==
    IF segs = <<>> \/ ~tree[d].isdir THEN {}
    ELSE LET hits == Matching(tree, d, Head(segs))
         IN {d} \cup UNION {GlobListed(tree, hits[i], Tail(segs)) : i \in 1..Len(hits)}

\* The directories among the entries of d, in listing order: the dirs of os.walk.
RECURSIVE SubDirsFrom(_, _, _)
SubDirsFrom(tree, d, n) ==
    IF n > Len(tree) THEN <<>>
    ELSE (IF tree[n].parent = d /\ tree[n].isdir THEN <<n>> ELSE <<>>)
         \o SubDirsFrom(tree, d, n + 1)

SubDirs(tree, d) == SubDirsFrom(tree, d, 1)

\* The pruning that keeps every directory.
PruneNothing(tree, dirs, exclude_dirs) == dirs

\* dirs[:] = [d for d in dirs if d not in exclude_dirs]
RECURSIVE Prune(_, _, _)
Prune(tree, dirs, exclude_dirs) ==
    IF dirs = <<>> THEN <<>>
    ELSE (IF tree[Head(dirs)].name \notin exclude_dirs THEN <<Head(dirs)>> ELSE <<>>)
         \o Prune(tree, Tail(dirs), exclude_dirs)

RECURSIVE Distinct(_)
Distinct(seq) ==
    IF seq = <<>> THEN <<>>
    ELSE LET init == Distinct(SubSeq(seq, 1, Len(seq) - 1))
             last == seq[Len(seq)]
         IN IF \E i \in 1..Len(init) : init[i] = last THEN init ELSE Append(init, last)

\* The collection that keeps one entry per path.
GlobPatternsDistinct(tree, root, file_patterns) ==
    Distinct(Flatten([i \in 1..Len(file_patterns) |-> Glob(tree, root, file_patterns[i])]))

\* for pattern in file_patterns: files.extend(Path(root).glob(pattern))
GlobPatterns(tree, root, file_patterns) ==
    Flatten([i \in 1..Len(file_patterns) |-> Glob(tree, root, file_patterns[i])])

\* WordSearcher.process_file
process_file(pattern, tree, file_path, libs) ==
    LET suffix == LowerSuffix(Suffix(tree[file_path].name))
    IN IF suffix = ".docx"
       THEN search_document(pattern, file_path, tree[file_path].doc, libs.docx_available)
       ELSE IF suffix = ".pdf"
       THEN search_pdf(pattern, file_path, tree[file_path].doc, libs.pdf_available)
       ELSE Outcome(<<>>, <<>>)

\* The scan of the units reaches one whose extraction never returns.
RECURSIVE ScanHangs(_)
ScanHangs(units) ==
    IF units = <<>> THEN FALSE
    ELSE IF Head(units).unit.raises THEN FALSE
    ELSE IF Head(units).unit.hangs THEN TRUE
    ELSE ScanHangs(Tail(units))

\* The process_file call of a file never returns: its adapter reads the
\* document and reaches such a unit.
process_file_hangs(tree, file_path, libs) ==
    LET suffix == LowerSuffix(Suffix(tree[file_path].name))
        doc == tree[file_path].doc
    IN IF suffix = ".docx"
       THEN /\ libs.docx_available
            /\ ~doc.open_fails /\ doc.kind = "docx"
            /\ ScanHangs(ParagraphUnits(doc) \o TableUnits(doc))
       ELSE IF suffix = ".pdf"
       THEN /\ libs.pdf_available
            /\ ~doc.open_fails /\ doc.kind = "pdf"
            /\ ScanHangs(PageUnits(doc))
       ELSE FALSE

\* The adapters process_file calls for a file, in order.
process_file_calls(tree, file_path) ==
    LET suffix == LowerSuffix(Suffix(tree[file_path].name))
    IN IF suffix = ".docx" THEN <<"search_document">>
       ELSE IF suffix = ".pdf" THEN <<"search_pdf">>
       ELSE <<>>

(***************************************************************************)
(* The exporters (exporter.py).  An export file is its path and the        *)
(* sequence of its f.write calls.                                          *)
(***************************************************************************)
NoLabel == Label("", <<>>)
W(kind, file_path, label, text) ==
    [kind |-> kind, file_path |-> file_path, label |-> label, text |-> text]

\* ResultExporter._get_export_path
get_export_path(search_term, extension) ==
    [name |-> sanitize_filename(search_term, ExportNameLength), ext |-> extension]

ExportFile(path, writes) == [path |-> path, writes |-> writes]

\* The loop of export_html; current_file is 0 for None.
RECURSIVE HtmlBody(_, _)
HtmlBody(result_list, current_file) ==
    IF result_list = <<>>
    THEN IF current_file # 0 THEN <<W("close_div", 0, NoLabel, <<>>)>> ELSE <<>>
    ELSE LET result == Head(result_list)
             opener == IF current_file # result.file_path
                       THEN (IF current_file # 0
                             THEN <<W("close_div", 0, NoLabel, <<>>)>> ELSE <<>>)
                            \o <<W("file_header", result.file_path, NoLabel, <<>>)>>
                       ELSE <<>>
         IN opener
            \o <<W("heading", result.file_path, result.page_or_section, <<>>),
                 W("context", result.file_path, result.page_or_section,
                   HighlightHtml(result.context, result.match_positions))>>
            \o HtmlBody(Tail(result_list), result.file_path)

\* ResultExporter.export_html
export_html(search_term, result_list) ==
    ExportFile(get_export_path(search_term, "html"),
               <<W("head", 0, NoLabel, html_escape(search_term))>>
                   \o HtmlBody(result_list, 0)
                   \o <<W("tail", 0, NoLabel, <<>>)>>)

\* A loop that writes an entry only where the file changes.
RECURSIVE FlatBodyOncePerFile(_, _)
FlatBodyOncePerFile(result_list, current_file) ==
    IF result_list = <<>> THEN <<>>
    ELSE LET result == Head(result_list)
         IN (IF current_file # result.file_path
             THEN <<W("file_header", result.file_path, NoLabel, <<>>),
                    W("entry", result.file_path, result.page_or_section,
                      wrap_text(result.context, DefaultWrapWidth))>>
             ELSE <<>>)
            \o FlatBodyOncePerFile(Tail(result_list), result.file_path)

\* The loop of export_markdown and of export_text: one write per record,
\* after a file header when the file changes.
RECURSIVE FlatBody(_, _)
FlatBody(result_list, current_file) ==
    IF result_list = <<>> THEN <<>>
    ELSE LET result == Head(result_list)
             opener == IF current_file # result.file_path
                       THEN <<W("file_header", result.file_path, NoLabel, <<>>)>>
                       ELSE <<>>
         IN opener
            \o <<W("entry", result.file_path, result.page_or_section,
                   wrap_text(result.context, DefaultWrapWidth))>>
            \o FlatBody(Tail(result_list), result.file_path)

FlatHead(search_term) ==
    <<W("head", 0, NoLabel, search_term), W("head", 0, NoLabel, <<>>),
      W("head", 0, NoLabel, <<>>)>>

\* ResultExporter.export_markdown
export_markdown(search_term, result_list) ==
    ExportFile(get_export_path(search_term, "md"),
               FlatHead(search_term) \o FlatBody(result_list, 0))

\* ResultExporter.export_text
export_text(search_term, result_list) ==
    ExportFile(get_export_path(search_term, "txt"),
               FlatHead(search_term) \o FlatBody(result_list, 0))

\* A format name taken as it is given.
KeepFormat(format_type) == format_type

\* str.lower() of a format name.
LowerFormat(format_type) ==
    CASE format_type = "HTML" -> "html"
      [] format_type = "Markdown" -> "markdown"
      [] format_type = "TXT" -> "txt"
      [] OTHER -> format_type

\* What export returns and does: the path (or None), the files written, the
\* lines printed.
Exported(path, written, lines) == [path |-> path, written |-> written, printed |-> lines]

\* An export that does not test for an empty list.
export_without_empty_check(search_term, result_list, format_type) ==
    LET fmt == LowerFormat(format_type)
    IN IF fmt \notin {"html", "markdown", "txt", "md", "text"}
       THEN Exported(None, <<>>, <<"Unsupported export format">>)
       ELSE LET file == CASE fmt = "html" -> export_html(search_term, result_list)
                          [] fmt \in {"markdown", "md"} ->
                                 export_markdown(search_term, result_list)
                          [] OTHER -> export_text(search_term, result_list)
            IN Exported(Some(file.path), <<file>>, <<>>)

\* ResultExporter.export
export(search_term, result_list, format_type) ==
    IF result_list = <<>>
    THEN Exported(None, <<>>, <<"No results to export.">>)
    ELSE LET fmt == LowerFormat(format_type)
         IN IF fmt \notin {"html", "markdown", "txt", "md", "text"}
            THEN Exported(None, <<>>, <<"Unsupported export format">>)
            ELSE LET file == CASE fmt = "html" -> export_html(search_term, result_list)
                               [] fmt \in {"markdown", "md"} ->
                                      export_markdown(search_term, result_list)
                               [] OTHER -> export_text(search_term, result_list)
                 IN Exported(Some(file.path), <<file>>, <<>>)

(***************************************************************************)
(* Constants of constants.py and optional arguments.                       *)
(***************************************************************************)
MIN_THREADS == 1
MAX_THREADS == 32
DefaultCpuCount == 4
WorkerHeadroom == 4

EXCLUDED_DIRS == {".git", "__pycache__", "venv", ".venv"}
DEFAULT_PATTERNS == << <<"*.docx">>, <<"*.pdf">> >>
EXPORT_FORMATS == {"html", "markdown", "txt"}

\* MAX_WORKERS = min(MAX_THREADS, (cpu_count() or 4) + 4)
MAX_WORKERS(cpu_count) ==
    Min(MAX_THREADS,
        (IF cpu_count.some /\ cpu_count.v # 0 THEN cpu_count.v ELSE DefaultCpuCount)
            + WorkerHeadroom)

\* max_workers or MAX_WORKERS
max_workers_or_default(max_workers, cpu_count) ==
    IF max_workers.some /\ max_workers.v # 0 THEN max_workers.v ELSE MAX_WORKERS(cpu_count)

\* file_patterns or DEFAULT_PATTERNS
patterns_or_default(file_patterns) ==
    IF file_patterns.some /\ file_patterns.v # <<>> THEN file_patterns.v ELSE DEFAULT_PATTERNS

\* exclude_dirs or EXCLUDED_DIRS
exclude_or_default(exclude_dirs) ==
    IF exclude_dirs.some /\ exclude_dirs.v # {} THEN exclude_dirs.v ELSE EXCLUDED_DIRS

(***************************************************************************)
(* The inputs of a run.                                                    *)
(***************************************************************************)
\* The interpreter's environment: multiprocessing.cpu_count() and the
\* optional libraries found at import.
Environments ==
    { [cpu_count |-> None, docx_available |-> TRUE, pdf_available |-> TRUE,
       tqdm_available |-> FALSE],
      [cpu_count |-> Some(29), docx_available |-> TRUE, pdf_available |-> TRUE,
       tqdm_available |-> TRUE],
      [cpu_count |-> Some(2), docx_available |-> TRUE, pdf_available |-> FALSE,
       tqdm_available |-> FALSE],
      [cpu_count |-> None, docx_available |-> FALSE, pdf_available |-> TRUE,
       tqdm_available |-> TRUE] }

ThreadChoices == {None, Some(0), Some(1), Some(2), Some(-1), Some(MAX_THREADS + 1)}
PatternChoices ==
    {None, Some(<<>>), Some(<< <<"*.docx">>, <<"a*">>, <<"*.pdf">> >>),
     Some(<< <<"*.docx">>, <<"*", "*.docx">> >>), Some(<< <<"a*">> >>)}
ExcludeChoices == {None, Some({}), Some({"docs"})}
ExportChoices == {None, Some("html"), Some("markdown"), Some("txt")}
SearchChoices ==
    { [search_term |-> <<"a">>, case_sensitive |-> FALSE, whole_word |-> FALSE,
       use_regex |-> FALSE],
      [search_term |-> <<"a">>, case_sensitive |-> TRUE, whole_word |-> TRUE,
       use_regex |-> FALSE],
      [search_term |-> <<"a", "|">>, case_sensitive |-> FALSE, whole_word |-> FALSE,
       use_regex |-> TRUE] }

\* The search_params dictionary of execute_search.  The thread counts 0 and
\* MAX_THREADS + 1 come with the default patterns and exclusions and no export.
SearchParams ==
    { r \in { [search_term |-> q.search_term, case_sensitive |-> q.case_sensitive,
               whole_word |-> q.whole_word, use_regex |-> q.use_regex,
               threads |-> t, directory |-> 1, file_patterns |-> p, exclude |-> x,
               export_format |-> e] :
              q \in SearchChoices, t \in ThreadChoices, p \in PatternChoices,
              x \in ExcludeChoices, e \in ExportChoices } :
        r.threads \in {Some(0), Some(MAX_THREADS + 1)}
            => r.file_patterns = None /\ r.exclude = None /\ r.export_format = None }

IdleParams ==
    [search_term |-> <<"a">>, case_sensitive |-> FALSE, whole_word |-> FALSE,
     use_regex |-> FALSE, threads |-> None, directory |-> 1, file_patterns |-> None,
     exclude |-> None, export_format |-> None]

(***************************************************************************)
(* State.                                                                  *)
(***************************************************************************)
VARIABLES
    fs,          \* the directory tree below the search root
    env,         \* cpu count and optional libraries
    params,      \* the search_params of this invocation
    searcher,    \* the WordSearcher: its fields, or NoSearcher
    probe,       \* a direct call of the matcher on a text, or NoProbe
    pc,          \* where execute_search stands
    walk_stack,  \* os.walk: the directories still to visit, next first
    files,       \* _collect_files: the list collected so far
    listed,      \* the directories whose entries have been listed
    tasks,       \* the futures of the pool, in submission order
    fanin,       \* as_completed: whether it was called, and of the futures not
                 \* yet yielded those done at the call and all in finishing order
    all_matches, \* search_recursive: the list the fan-in extends
    results,     \* the list search_recursive returned
    printed,     \* the lines written to standard output
    exports      \* the export files written

vars == <<fs, env, params, searcher, probe, pc, walk_stack, files, listed, tasks, fanin,
          all_matches, results, printed, exports>>

run_vars == <<pc, walk_stack, files, listed, tasks, fanin, all_matches, results, printed,
              exports>>

NoSearcher == [made |-> FALSE]
NoFanIn == [begun |-> FALSE, early |-> {}, order |-> <<>>]
NoProbe == [called |-> FALSE]

Msg(text, file, n) == [text |-> text, file |-> file, n |-> n]
Line(text) == Msg(text, 0, 0)

\* WordSearcher.__init__
NewSearcher(search_term, case_sensitive, whole_word, use_regex, max_workers, cpu_count) ==
    [made |-> TRUE,
     search_term |-> search_term,
     case_sensitive |-> case_sensitive,
     whole_word |-> whole_word,
     use_regex |-> use_regex,
     max_workers |-> max_workers_or_default(max_workers, cpu_count),
     pattern |-> compile_pattern(search_term, case_sensitive, whole_word, use_regex)]

(***************************************************************************)
(* The matcher alone: a searcher is constructed, then asked about a text.  *)
(***************************************************************************)
Construct(search_term, case_sensitive, whole_word, use_regex) ==
    /\ searcher = NoSearcher
    /\ searcher' = NewSearcher(search_term, case_sensitive, whole_word, use_regex,
                               None, env.cpu_count)
    /\ UNCHANGED <<fs, env, params, probe, run_vars>>

\* One call of _search_text and _find_matches_in_text on a text.
MatchText(text) ==
    /\ searcher.made
    /\ probe = NoProbe
    /\ probe' = [called |-> TRUE,
                 text |-> text,
                 found |-> search_text(searcher.pattern, text),
                 match_positions |-> find_matches_in_text(searcher.pattern, text)]
    /\ UNCHANGED <<fs, env, params, searcher, run_vars>>

IdleRun ==
    /\ pc = "idle"
    /\ walk_stack = <<>>
    /\ files = <<>>
    /\ listed = {}
    /\ tasks = <<>>
    /\ fanin = NoFanIn
    /\ all_matches = <<>>
    /\ results = <<>>
    /\ printed = <<>>
    /\ exports = <<>>

InitMatch ==
    /\ fs = TreeNoMatch
    /\ env = [cpu_count |-> None, docx_available |-> TRUE, pdf_available |-> TRUE,
              tqdm_available |-> FALSE]
    /\ params = IdleParams
    /\ searcher = NoSearcher
    /\ probe = NoProbe
    /\ IdleRun

NextMatch ==
    \/ \E t \in Terms, cs \in BOOLEAN, ww \in BOOLEAN, re \in BOOLEAN :
           Construct(t, cs, ww, re)
    \/ \E text \in Texts : MatchText(text)

SpecMatch == InitMatch /\ [][NextMatch]_vars

(***************************************************************************)
(* The library called directly: one call of a public function on inputs    *)
(* drawn from small sets, its arguments and its result kept in probe.      *)
(***************************************************************************)
\* The records handed to the exporter.
SampleRecords ==
    { SearchMatch(2, <<"a">>, Label("Paragraph", <<1>>), << <<0, 1>> >>),
      SearchMatch(2, <<"<", "A", "a">>, Label("Paragraph", <<3>>), << <<1, 2>>, <<2, 3>> >>),
      SearchMatch(5, <<"a", " ", "a">>, Label("Page", <<1>>), << <<0, 1>>, <<2, 3>> >>) }

\* The result lists handed to the exporter: every list of at most two records.
ResultLists ==
    {<<>>} \cup {<<r>> : r \in SampleRecords}
           \cup {<<r, q>> : r \in SampleRecords, q \in SampleRecords}

\* The format names handed to the exporter.
FormatNames ==
    {"html", "HTML", "markdown", "Markdown", "md", "text", "txt", "TXT", "pdf", ""}

\* ResultExporter(search_term, directory).export(results, format_type)
CallExport(search_term, result_list, format_type) ==
    /\ probe = NoProbe
    /\ LET out == export(search_term, result_list, format_type)
       IN probe' = [called |-> TRUE, fn |-> "export", search_term |-> search_term,
                    results |-> result_list, format_type |-> format_type,
                    returned |-> out.path, written |-> out.written,
                    printed |-> out.printed]
    /\ UNCHANGED <<fs, env, params, searcher, run_vars>>


\* The texts and widths handed to wrap_text.
WrapChars == {"a", " ", "\n"}
WrapTexts == UNION {[1..n -> WrapChars] : n \in 0..MaxWrapLen}
WrapWidths == (-1)..MaxWidth

\* wrap_text(text, max_width)
CallWrapText(text, max_width) ==
    /\ probe = NoProbe
    /\ probe' = [called |-> TRUE, fn |-> "wrap_text", text |-> text,
                 max_width |-> max_width, returned |-> wrap_text(text, max_width)]
    /\ UNCHANGED <<fs, env, params, searcher, run_vars>>

\* The names and lengths handed to sanitize_filename.
NameChars == {"a", " ", "|", "/", "\t"}
FileNames == UNION {[1..n -> NameChars] : n \in 0..MaxNameLen}
NameLengths == (-1)..(MaxNameLen + 1)

\* sanitize_filename(filename, max_length)
CallSanitize(filename, max_length) ==
    /\ probe = NoProbe
    /\ probe' = [called |-> TRUE, fn |-> "sanitize_filename", filename |-> filename,
                 max_length |-> max_length,
                 returned |-> sanitize_filename(filename, max_length)]
    /\ UNCHANGED <<fs, env, params, searcher, run_vars>>

\* str.lower() of the characters typed at a prompt.
LowerTyped(text) ==
    [i \in 1..Len(text) |->
        CASE text[i] = "Y" -> "y"
          [] text[i] = "N" -> "n"
          [] OTHER -> text[i]]

\* str.strip()
RECURSIVE LStrip(_)
LStrip(text) ==
    IF text # <<>> /\ IsSpace(Head(text)) THEN LStrip(Tail(text)) ELSE text

RECURSIVE RStrip(_)
RStrip(text) ==
    IF text # <<>> /\ IsSpace(text[Len(text)])
    THEN RStrip(SubSeq(text, 1, Len(text) - 1))
    ELSE text

Strip(text) == LStrip(RStrip(text))

\* return user_input
Accepted(user_input) == user_input

\* interactive.get_user_input on the lines typed: the value returned (None
\* when the lines run out: input() raises EOFError), the number of lines
\* read and the number of "Invalid choice" messages printed.
RECURSIVE get_user_input(_, _, _)
get_user_input(lines, default, valid_options) ==
    IF lines = <<>> THEN [returned |-> None, read |-> 0, invalid |-> 0]
    ELSE LET user_input == Strip(Head(lines))
         IN IF user_input = <<>> /\ default.some
            THEN [returned |-> default, read |-> 1, invalid |-> 0]
            ELSE IF /\ valid_options.some
                    /\ valid_options.v # {}
                    /\ LowerTyped(user_input) \notin valid_options.v
            THEN LET rest == get_user_input(Tail(lines), default, valid_options)
                 IN [returned |-> rest.returned, read |-> rest.read + 1,
                     invalid |-> rest.invalid + 1]
            ELSE [returned |-> Some(Accepted(user_input)), read |-> 1, invalid |-> 0]

\* The lines a user types at a prompt.
TypedLines ==
    {<<>>, <<"y">>, <<"Y">>, <<"n">>, <<"x">>, <<" ">>, <<" ", "y">>, <<"n", " ">>,
     <<"2">>, <<"y", "y">>}
TypedSessions ==
    {<<a>> : a \in TypedLines} \cup {<<a, b>> : a, b \in TypedLines}
        \cup {<<a, b, c>> : a, b, c \in {<<>>, <<"Y">>, <<"x">>, <<"n">>}}
PromptDefaults == {None, Some(<<"n">>), Some(<<"1">>)}
PromptOptions == {None, Some({<<"y">>, <<"n">>}), Some({<<"1">>, <<"2">>, <<"3">>})}

\* get_user_input(prompt, default, valid_options) with these lines on stdin
CallGetUserInput(lines, default, valid_options) ==
    /\ probe = NoProbe
    /\ probe' = [called |-> TRUE, fn |-> "get_user_input", lines |-> lines,
                 default |-> default, valid_options |-> valid_options,
                 returned |-> get_user_input(lines, default, valid_options)]
    /\ UNCHANGED <<fs, env, params, searcher, run_vars>>

\* WordSearcher(search_term, ...).process_file(file_path)
CallProcessFile(q, file_path) ==
    /\ probe = NoProbe
    /\ ~fs[file_path].isdir
    /\ LET made == NewSearcher(q.search_term, q.case_sensitive, q.whole_word,
                               q.use_regex, None, env.cpu_count)
       IN /\ searcher' = made
          /\ probe' = [called |-> TRUE, fn |-> "process_file", file_path |-> file_path,
                       calls |-> process_file_calls(fs, file_path),
                       returned |-> process_file(made.pattern, fs, file_path, env)]
    /\ UNCHANGED <<fs, env, params, run_vars>>

InitCalls ==
    /\ fs \in FileSystems
    /\ env \in Environments
    /\ params = IdleParams
    /\ searcher = NoSearcher
    /\ probe = NoProbe
    /\ IdleRun

NextCalls ==
    \/ \E t \in {<<"a">>, <<"a", "|">>}, l \in ResultLists, f \in FormatNames :
           CallExport(t, l, f)
    \/ \E text \in WrapTexts, w \in WrapWidths : CallWrapText(text, w)
    \/ \E name \in FileNames, n \in NameLengths : CallSanitize(name, n)
    \/ \E q \in SearchChoices, f \in 1..Len(fs) : CallProcessFile(q, f)
    \/ \E lines \in TypedSessions, d \in PromptDefaults, o \in PromptOptions :
           CallGetUserInput(lines, d, o)

SpecCalls == InitCalls /\ [][NextCalls]_vars

(***************************************************************************)
(* The command line (cli.py) and the mode main picks for it (main.py).      *)
(***************************************************************************)
\* bool(s) of an optional string: None and "" (the empty sequence) are falsy.
Truthy(s) == s.some /\ s.v # <<>>

\* The argparse.Namespace of parse_arguments.
ArgChoices ==
    { [search_term |-> t, directory |-> d, interactive |-> i, case_sensitive |-> FALSE,
       whole_word |-> w, regex |-> FALSE, threads |-> n, exclude |-> x, pdf |-> p,
       export |-> e] :
      t \in {None, Some(<<>>), Some(<<"a">>)}, d \in {None, Some(<<>>), Some(<<"proj">>)},
      i \in BOOLEAN, w \in BOOLEAN, n \in {None, Some(0), Some(2), Some(-1)},
      x \in {<<>>, <<"docs">>}, p \in BOOLEAN, e \in {None, Some("html")} }

\* cli.get_search_params; a search term that is None stays None, a directory
\* resolves to the root of the tree, and 0 stands for the directory None.
get_search_params(args) ==
    [search_term |-> IF args.search_term.some THEN args.search_term.v ELSE None,
     case_sensitive |-> args.case_sensitive,
     whole_word |-> args.whole_word,
     use_regex |-> args.regex,
     threads |-> args.threads,
     directory |-> IF Truthy(args.directory) THEN 1 ELSE 0,
     file_patterns |-> IF args.pdf THEN Some(DEFAULT_PATTERNS) ELSE Some(<< <<"*.docx">> >>),
     exclude |-> Some(EXCLUDED_DIRS \cup {args.exclude[k] : k \in 1..Len(args.exclude)}),
     export_format |-> args.export]

\* A main that looks at the flag only.
InteractiveOnFlagOnly(args) == args.interactive

\* if args.interactive or not (args.search_term and args.directory)
WantsInteractive(args) ==
    args.interactive \/ ~(Truthy(args.search_term) /\ Truthy(args.directory))

CallOf(fn, arg) == [fn |-> fn, arg |-> arg]

(***************************************************************************)
(* The code-quality runner (code_quality.py).  probe holds the command     *)
(* line, what each tool does when run, the tools run so far and the exit   *)
(* status; pc is the position in the __main__ block.                       *)
(***************************************************************************)
REQUIRED_TOOLS == {"ruff", "black", "mypy", "bandit"}

\* The exit status of Black: 0 when nothing is to be reformatted, and when it
\* reformats; 1 when it would reformat under --check; 123 on an internal error.
BlackExitCode(outcome, check_only_mode) ==
    CASE outcome = "clean" -> 0
      [] outcome = "reformat" -> IF check_only_mode THEN 1 ELSE 0
      [] outcome = "internal_error" -> 123

\* run_ruff: return 0 if ruff_exit_code in [0, 1] else ruff_exit_code
run_ruff(ruff_exit_code) == IF ruff_exit_code \in {0, 1} THEN 0 ELSE ruff_exit_code

\* run_black
run_black(black_exit_code, check_only_mode) ==
    IF black_exit_code = 0 THEN TRUE
    ELSE IF black_exit_code = 1 /\ check_only_mode THEN FALSE
    ELSE IF black_exit_code = 123 THEN FALSE
    ELSE black_exit_code = 0

\* What run_black returns in this invocation.
black_success == run_black(BlackExitCode(probe.black, probe.check), probe.check)

\* validate_environment
validate_environment(missing) == missing = {}

Exit(status) == [probe EXCEPT !.exit = Some(status)]
Ran(tool) == [probe EXCEPT !.calls = Append(@, tool)]
HasRun(tool) == \E k \in 1..Len(probe.calls) : probe.calls[k] = tool

\* if not validate_environment(): sys.exit(2)
QValidate ==
    /\ pc = "cq_start"
    /\ IF validate_environment(probe.missing)
       THEN pc' = "cq_dispatch" /\ probe' = probe
       ELSE pc' = "cq_exit" /\ probe' = Exit(2)
    /\ UNCHANGED <<fs, env, params, searcher, walk_stack, files, listed, tasks, fanin,
                   all_matches, results, printed, exports>>

\* --black-only: sys.exit(0 if formatting_success else 1)
QBlackOnly ==
    /\ pc = "cq_dispatch"
    /\ probe.black_only
    /\ probe' = [Ran("black") EXCEPT !.exit = Some(IF black_success THEN 0 ELSE 1)]
    /\ pc' = "cq_exit"
    /\ UNCHANGED <<fs, env, params, searcher, walk_stack, files, listed, tasks, fanin,
                   all_matches, results, printed, exports>>

\* run_all_checks: Ruff
QCiRuff ==
    /\ pc = "cq_dispatch"
    /\ ~probe.black_only /\ probe.ci_output
    /\ probe' = [Ran("ruff") EXCEPT !.success = (run_ruff(probe.ruff) = 0)]
    /\ pc' = "ci_black"
    /\ UNCHANGED <<fs, env, params, searcher, walk_stack, files, listed, tasks, fanin,
                   all_matches, results, printed, exports>>

\* run_all_checks: Black
QCiBlack ==
    /\ pc = "ci_black"
    /\ probe' = [Ran("black") EXCEPT
                   !.success = IF ~black_success /\ probe.check THEN FALSE ELSE @]
    /\ pc' = "cq_parallel"
    /\ UNCHANGED <<fs, env, params, searcher, walk_stack, files, listed, tasks, fanin,
                   all_matches, results, printed, exports>>

\* The plain path: Ruff, sys.exit(ruff_result) when it is not 0.
QPlainRuff ==
    /\ pc = "cq_dispatch"
    /\ ~probe.black_only /\ ~probe.ci_output
    /\ IF run_ruff(probe.ruff) # 0
       THEN /\ probe' = [Ran("ruff") EXCEPT !.exit = Some(run_ruff(probe.ruff))]
            /\ pc' = "cq_exit"
       ELSE /\ probe' = Ran("ruff")
            /\ pc' = "plain_black"
    /\ UNCHANGED <<fs, env, params, searcher, walk_stack, files, listed, tasks, fanin,
                   all_matches, results, printed, exports>>

\* The plain path: Black, sys.exit(1) when it failed under --check.
QPlainBlack ==
    /\ pc = "plain_black"
    /\ IF ~black_success /\ probe.check
       THEN /\ probe' = [Ran("black") EXCEPT !.exit = Some(1)]
            /\ pc' = "cq_exit"
       ELSE /\ probe' = Ran("black")
            /\ pc' = "cq_parallel"
    /\ UNCHANGED <<fs, env, params, searcher, walk_stack, files, listed, tasks, fanin,
                   all_matches, results, printed, exports>>

\* The Mypy thread of the executor.
QRunMypy ==
    /\ pc = "cq_parallel"
    /\ ~HasRun("mypy")
    /\ probe' = Ran("mypy")
    /\ pc' = pc
    /\ UNCHANGED <<fs, env, params, searcher, walk_stack, files, listed, tasks, fanin,
                   all_matches, results, printed, exports>>

\* The Bandit thread of the executor.
QRunBandit ==
    /\ pc = "cq_parallel"
    /\ ~HasRun("bandit")
    /\ probe' = Ran("bandit")
    /\ pc' = pc
    /\ UNCHANGED <<fs, env, params, searcher, walk_stack, files, listed, tasks, fanin,
                   all_matches, results, printed, exports>>

\* run_all_checks after both futures, and sys.exit(0 if success else 1).
QCiJoin ==
    /\ pc = "cq_parallel"
    /\ probe.ci_output
    /\ HasRun("mypy") /\ HasRun("bandit")
    /\ LET success == IF probe.mypy # 0 \/ probe.bandit # 0 THEN FALSE ELSE probe.success
       IN  probe' = [probe EXCEPT !.success = success,
                                  !.exit = Some(IF success THEN 0 ELSE 1)]
    /\ pc' = "cq_exit"
    /\ UNCHANGED <<fs, env, params, searcher, walk_stack, files, listed, tasks, fanin,
                   all_matches, results, printed, exports>>

\* run_parallel_checks after both futures: sys.exit(1), or the end of the
\* script (status 0).
QPlainJoin ==
    /\ pc = "cq_parallel"
    /\ ~probe.ci_output
    /\ HasRun("mypy") /\ HasRun("bandit")
    /\ probe' = Exit(IF probe.mypy # 0 \/ probe.bandit # 0 THEN 1 ELSE 0)
    /\ pc' = "cq_exit"
    /\ UNCHANGED <<fs, env, params, searcher, walk_stack, files, listed, tasks, fanin,
                   all_matches, results, printed, exports>>

\* The command lines and the behaviour of the four tools.
QualityRuns ==
    { [called |-> TRUE, fn |-> "code_quality", check |-> c, black_only |-> b,
       ci_output |-> o, missing |-> m, ruff |-> r, black |-> k, mypy |-> y, bandit |-> n,
       calls |-> <<>>, success |-> TRUE, exit |-> None] :
      c \in BOOLEAN, b \in BOOLEAN, o \in BOOLEAN,
      m \in {{}, {"black"}, {"mypy", "bandit"}, REQUIRED_TOOLS},
      r \in {0, 1, 2}, k \in {"clean", "reformat", "internal_error"},
      y \in {0, 1}, n \in {0, 1} }

InitQuality ==
    /\ fs = TreeProject
    /\ env \in Environments
    /\ params = IdleParams
    /\ searcher = NoSearcher
    /\ probe \in QualityRuns
    /\ pc = "cq_start"
    /\ walk_stack = <<>>
    /\ files = <<>>
    /\ listed = {}
    /\ tasks = <<>>
    /\ fanin = NoFanIn
    /\ all_matches = <<>>
    /\ results = <<>>
    /\ printed = <<>>
    /\ exports = <<>>

NextQuality ==
    \/ QValidate
    \/ QBlackOnly
    \/ QCiRuff
    \/ QCiBlack
    \/ QPlainRuff
    \/ QPlainBlack
    \/ QRunMypy
    \/ QRunBandit
    \/ QCiJoin
    \/ QPlainJoin

SpecQuality == InitQuality /\ [][NextQuality]_vars

(***************************************************************************)
(* A run of execute_search.                                                *)
(***************************************************************************)
\* The locals of search_recursive.
FilePatterns == patterns_or_default(params.file_patterns)
ExcludeDirs == exclude_or_default(params.exclude)

\* execute_search up to the call of _collect_files: the searcher is made and
\* search_recursive resolves its defaults and starts the walk at the root.
BeginSearch ==
    /\ pc = "start"
    /\ searcher' = NewSearcher(params.search_term, params.case_sensitive,
                               params.whole_word, params.use_regex,
                               params.threads, env.cpu_count)
    /\ printed' = printed \o <<Line("Starting search..."), Line("Searching in")>>
    /\ walk_stack' = <<params.directory>>
    /\ pc' = "collect"
    /\ UNCHANGED <<fs, env, params, probe, files, listed, tasks, fanin, all_matches, results,
                   exports>>

\* One iteration of the os.walk loop of _collect_files.
WalkStep ==
    /\ pc = "collect"
    /\ walk_stack # <<>>
    /\ LET root == Head(walk_stack)
           dirs == Prune(fs, SubDirs(fs, root), ExcludeDirs)
       IN /\ files' = files \o GlobPatterns(fs, root, FilePatterns)
          /\ listed' = listed \cup {root}
                          \cup UNION {GlobListed(fs, root, FilePatterns[i]) :
                                        i \in 1..Len(FilePatterns)}
          /\ walk_stack' = dirs \o Tail(walk_stack)
    /\ UNCHANGED <<fs, env, params, searcher, probe, pc, tasks, fanin, all_matches, results,
                   printed, exports>>

\* if not files: print("No matching files found."); return []
NoFilesFound ==
    /\ pc = "collect"
    /\ walk_stack = <<>>
    /\ files = <<>>
    /\ printed' = Append(printed, Line("No matching files found."))
    /\ results' = <<>>
    /\ pc' = "summary"
    /\ UNCHANGED <<fs, env, params, searcher, probe, walk_stack, files, listed, tasks, fanin,
                   all_matches, exports>>

\* ThreadPoolExecutor(max_workers) raises ValueError for max_workers <= 0; the
\* exception leaves search_recursive and execute_search.
PoolRejected ==
    /\ pc = "collect"
    /\ walk_stack = <<>>
    /\ files # <<>>
    /\ searcher.max_workers <= 0
    /\ pc' = "raised"
    /\ UNCHANGED <<fs, env, params, searcher, probe, walk_stack, files, listed, tasks, fanin,
                   all_matches, results, printed, exports>>

NewTask(file) == [file |-> file, state |-> "pending", outcome |-> Outcome(<<>>, <<>>)]

\* with ThreadPoolExecutor(max_workers=self.max_workers) as executor
OpenPool ==
    /\ pc = "collect"
    /\ walk_stack = <<>>
    /\ files # <<>>
    /\ searcher.max_workers > 0
    /\ tasks' = <<>>
    /\ pc' = "pool"
    /\ UNCHANGED <<fs, env, params, searcher, probe, walk_stack, files, listed, fanin,
                   all_matches, results, printed, exports>>

\* Every file of the list has its future.
AllSubmitted == Len(tasks) = Len(files)

\* One iteration of future_to_file = {executor.submit(self.process_file, file):
\* file for file in files}: the next file is queued, while the workers go on
\* with the tasks queued before.
Submit ==
    /\ pc = "pool"
    /\ ~AllSubmitted
    /\ tasks' = Append(tasks, NewTask(files[Len(tasks) + 1]))
    /\ UNCHANGED <<fs, env, params, searcher, probe, pc, walk_stack, files, listed, fanin,
                   all_matches, results, printed, exports>>

\* The tasks a worker thread is busy with: inside process_file, or back from
\* it with the future not yet set done.
Busy(task_list) ==
    {i \in 1..Len(task_list) : task_list[i].state \in {"running", "returned"}}

Running == Busy(tasks)

\* A worker may take a task whenever the queue is not empty.
WorkerAlwaysFree(task_list, max_workers) == TRUE

\* A pool of one thread, whatever its size.
WorkerFreeSingle(task_list, max_workers) ==
    Cardinality(Busy(task_list)) < 1

\* The pool runs at most max_workers threads, each on one task at a time.
WorkerFree(task_list, max_workers) ==
    Cardinality(Busy(task_list)) < max_workers

\* A worker thread takes the next task of the queue.
TaskStart(i) ==
    /\ pc = "pool"
    /\ tasks[i].state = "pending"
    /\ \A j \in 1..(i - 1) : tasks[j].state # "pending"
    /\ WorkerFree(tasks, searcher.max_workers)
    /\ tasks' = [tasks EXCEPT ![i].state = "running"]
    /\ UNCHANGED <<fs, env, params, searcher, probe, pc, walk_stack, files, listed, fanin,
                   all_matches, results, printed, exports>>

\* A worker that appends the records of its file to the shared list itself.
TaskFinishAppends(i) ==
    /\ pc = "pool"
    /\ tasks[i].state = "running"
    /\ ~process_file_hangs(fs, tasks[i].file, env)
    /\ LET out == process_file(searcher.pattern, fs, tasks[i].file, env)
       IN /\ tasks' = [tasks EXCEPT ![i].state = "returned", ![i].outcome = out]
          /\ all_matches' = all_matches \o out.matches
          /\ printed' = printed \o [k \in 1..Len(out.printed) |->
                                       Msg(out.printed[k], tasks[i].file, 0)]
    /\ UNCHANGED <<fs, env, params, searcher, probe, pc, walk_stack, files, listed, fanin,
                   results, exports>>

\* process_file runs in its worker thread, prints its lines and returns its
\* list to the pool.
TaskFinish(i) ==
    /\ pc = "pool"
    /\ tasks[i].state = "running"
    /\ ~process_file_hangs(fs, tasks[i].file, env)
    /\ LET out == process_file(searcher.pattern, fs, tasks[i].file, env)
       IN /\ tasks' = [tasks EXCEPT ![i].state = "returned", ![i].outcome = out]
          /\ printed' = printed \o [k \in 1..Len(out.printed) |->
                                       Msg(out.printed[k], tasks[i].file, 0)]
    /\ UNCHANGED <<fs, env, params, searcher, probe, pc, walk_stack, files, listed, fanin,
                   all_matches, results, exports>>

\* The pool sets the result of the future: the future is done, as_completed
\* is told, and the worker is free for the next task.
FutureDone(i) ==
    /\ pc = "pool"
    /\ tasks[i].state = "returned"
    /\ tasks' = [tasks EXCEPT ![i].state = "done"]
    /\ fanin' = [fanin EXCEPT !.order = Append(@, i)]
    /\ UNCHANGED <<fs, env, params, searcher, probe, pc, walk_stack, files, listed,
                   all_matches, results, printed, exports>>

\* The fan-in that keeps the last task's list only.
ReplaceMatches(acc, matches) == matches

\* all_matches.extend(matches)
ExtendMatches(acc, matches) == acc \o matches

\* The coordinating thread calls as_completed(future_to_file): the futures
\* that are done by then are kept as a set.
AsCompleted ==
    /\ pc = "pool"
    /\ AllSubmitted
    /\ ~fanin.begun
    /\ fanin' = [fanin EXCEPT !.begun = TRUE,
                              !.early = {i \in 1..Len(tasks) : tasks[i].state = "done"}]
    /\ UNCHANGED <<fs, env, params, searcher, probe, pc, walk_stack, files, listed, tasks,
                   all_matches, results, printed, exports>>

\* A fan-in that takes the finished futures in any order.
YieldsAny(task_list, f, i) == TRUE

\* The future as_completed yields next: one of those that were done when it
\* was called, in any order (a set is iterated); after them the others, in the
\* order in which they finish.
Yields(task_list, f, i) ==
    \/ i \in f.early
    \/ f.early = {} /\ f.order # <<>> /\ Head(f.order) = i

\* A sequence without the element i.
RECURSIVE Without(_, _)
Without(seq, i) ==
    IF seq = <<>> THEN <<>>
    ELSE (IF Head(seq) = i THEN <<>> ELSE <<Head(seq)>>) \o Without(Tail(seq), i)

\* One iteration of the as_completed loop in the coordinating thread.
CollectResult(i) ==
    /\ pc = "pool"
    /\ fanin.begun
    /\ tasks[i].state = "done"
    /\ Yields(tasks, fanin, i)
    /\ tasks' = [tasks EXCEPT ![i].state = "collected"]
    /\ all_matches' = ExtendMatches(all_matches, tasks[i].outcome.matches)
    /\ printed' = IF env.tqdm_available THEN printed
                  ELSE Append(printed, Msg("Processed", tasks[i].file,
                                           Len(tasks[i].outcome.matches)))
    /\ fanin' = [fanin EXCEPT !.early = @ \ {i}, !.order = Without(@, i)]
    /\ UNCHANGED <<fs, env, params, searcher, probe, pc, walk_stack, files, listed,
                   results, exports>>

\* A search_recursive that returns with the first result taken.
PoolDoneEarly ==
    /\ pc = "pool"
    /\ \E i \in 1..Len(tasks) : tasks[i].state = "collected"
    /\ results' = all_matches
    /\ pc' = "summary"
    /\ UNCHANGED <<fs, env, params, searcher, probe, walk_stack, files, listed, tasks, fanin,
                   all_matches, printed, exports>>

\* The as_completed loop is exhausted, the pool shuts down: return all_matches.
PoolDone ==
    /\ pc = "pool"
    /\ fanin.begun
    /\ \A i \in 1..Len(tasks) : tasks[i].state = "collected"
    /\ results' = all_matches
    /\ pc' = "summary"
    /\ UNCHANGED <<fs, env, params, searcher, probe, walk_stack, files, listed, tasks, fanin,
                   all_matches, printed, exports>>

\* The file paths of a list of records.
FilePaths(result_list) == {result_list[i].file_path : i \in 1..Len(result_list)}

\* execute_search: the summary printed after search_recursive returns.
Summarize ==
    /\ pc = "summary"
    /\ printed' = Append(printed,
                         IF results # <<>>
                         THEN Msg("Found", Cardinality(FilePaths(results)), Len(results))
                         ELSE Line("No matches found."))
    /\ pc' = "export"
    /\ UNCHANGED <<fs, env, params, searcher, probe, walk_stack, files, listed, tasks, fanin,
                   all_matches, results, exports>>

\* if search_params["export_format"] and results
ExportWanted(export_format, result_list) ==
    export_format.some /\ export_format.v # "" /\ result_list # <<>>

\* An HTML exporter that sorts each record's match_positions in place.
SortsPositionsInPlace(result_list, format_type) ==
    [k \in 1..Len(result_list) |->
        IF LowerFormat(format_type) = "html"
        THEN [result_list[k] EXCEPT !.match_positions = SortedReverse(@)]
        ELSE result_list[k]]

\* The records after an exporter has read them: the exporters assign to no
\* field of a record, and sorted() copies match_positions.
RecordsAfterExport(result_list, format_type) == result_list

\* execute_search: the export, when one is requested and there are results,
\* and the closing line.
ExportResults ==
    /\ pc = "export"
    /\ ExportWanted(params.export_format, results)
    /\ LET out == export(params.search_term, results, params.export_format.v)
       IN /\ exports' = exports \o out.written
          /\ printed' = printed
                 \o [k \in 1..Len(out.printed) |-> Line(out.printed[k])]
                 \o (IF out.path.some THEN <<Line("Results exported to")>> ELSE <<>>)
                 \o <<Line("Search completed")>>
    /\ results' = RecordsAfterExport(results, params.export_format.v)
    /\ pc' = "done"
    /\ UNCHANGED <<fs, env, params, searcher, probe, walk_stack, files, listed, tasks, fanin,
                   all_matches>>

SkipExport ==
    /\ pc = "export"
    /\ ~ExportWanted(params.export_format, results)
    /\ printed' = Append(printed, Line("Search completed"))
    /\ pc' = "done"
    /\ UNCHANGED <<fs, env, params, searcher, probe, walk_stack, files, listed, tasks, fanin,
                   all_matches, results, exports>>

Init ==
    /\ fs \in FileSystems
    /\ env \in Environments
    /\ params \in SearchParams
    /\ searcher = NoSearcher
    /\ probe = NoProbe
    /\ pc = "start"
    /\ walk_stack = <<>>
    /\ files = <<>>
    /\ listed = {}
    /\ tasks = <<>>
    /\ fanin = NoFanIn
    /\ all_matches = <<>>
    /\ results = <<>>
    /\ printed = <<>>
    /\ exports = <<>>

Next ==
    \/ BeginSearch
    \/ WalkStep
    \/ NoFilesFound
    \/ PoolRejected
    \/ OpenPool
    \/ Submit
    \/ \E i \in 1..Len(tasks) : TaskStart(i)
    \/ \E i \in 1..Len(tasks) : TaskFinish(i)
    \/ \E i \in 1..Len(tasks) : FutureDone(i)
    \/ AsCompleted
    \/ \E i \in 1..Len(tasks) : CollectResult(i)
    \/ PoolDone
    \/ Summarize
    \/ ExportResults
    \/ SkipExport

Spec == Init /\ [][Next]_vars

\* Runs on a tree with a document whose extraction never returns.
HangParams ==
    { q \in SearchParams :
        /\ q.search_term = <<"a">> /\ ~q.whole_word
        /\ q.threads \in {None, Some(1), Some(2), Some(-1)}
        /\ q.file_patterns \in {None, Some(<< <<"*.docx">>, <<"*", "*.docx">> >>)}
        /\ q.exclude \in {None, Some({"docs"})}
        /\ q.export_format \in {None, Some("html")} }

InitHang ==
    /\ fs = TreeHang
    /\ env \in Environments
    /\ params \in HangParams
    /\ searcher = NoSearcher
    /\ probe = NoProbe
    /\ pc = "start"
    /\ walk_stack = <<>>
    /\ files = <<>>
    /\ listed = {}
    /\ tasks = <<>>
    /\ fanin = NoFanIn
    /\ all_matches = <<>>
    /\ results = <<>>
    /\ printed = <<>>
    /\ exports = <<>>

\* The steps of the coordinating thread.
Coordinator ==
    \/ BeginSearch
    \/ WalkStep
    \/ NoFilesFound
    \/ PoolRejected
    \/ OpenPool
    \/ Submit
    \/ AsCompleted
    \/ \E i \in 1..Len(tasks) : CollectResult(i)
    \/ PoolDone
    \/ Summarize
    \/ ExportResults
    \/ SkipExport

\* Every thread that can take a step eventually takes one: the coordinating
\* thread, a free worker with a queued task, a worker whose process_file
\* call returns, and a worker that has a result to set.
Fairness ==
    /\ WF_vars(Coordinator)
    /\ WF_vars(\E i \in 1..Len(tasks) : TaskStart(i))
    /\ WF_vars(\E i \in 1..Len(tasks) : TaskFinish(i))
    /\ WF_vars(\E i \in 1..Len(tasks) : FutureDone(i))

SpecLive == InitHang /\ [][Next]_vars /\ Fairness

\* Runs under the same scheduling on a tree whose extractions all return
\* and on the tree with the hanging document.
InitFair ==
    /\ fs \in {TreeReturns, TreeHang}
    /\ env \in Environments
    /\ params \in HangParams
    /\ searcher = NoSearcher
    /\ probe = NoProbe
    /\ pc = "start"
    /\ walk_stack = <<>>
    /\ files = <<>>
    /\ listed = {}
    /\ tasks = <<>>
    /\ fanin = NoFanIn
    /\ all_matches = <<>>
    /\ results = <<>>
    /\ printed = <<>>
    /\ exports = <<>>

SpecFair == InitFair /\ [][Next]_vars /\ Fairness

(***************************************************************************)
(* A session of the program.  main (main.py) or exe_main (exe.py) picks    *)
(* the mode: run_search calls execute_search and returns; interactive_main *)
(* asks the menu for the parameters, calls execute_search, displays the    *)
(* results and exports them.  The calls made are kept in probe.calls.      *)
(***************************************************************************)
\* The session runs interactive_main: always under exe_main, and under main
\* when the command line asks for it.
Interactive ==
    /\ probe.called
    /\ \/ probe.fn = "exe_main"
       \/ probe.fn = "main" /\ WantsInteractive(probe.args)

\* The orders in which a set can be iterated.
Orderings(S) ==
    {p \in [1..Cardinality(S) -> S] : \A i, j \in 1..Cardinality(S) : i # j => p[i] # p[j]}

\* The iteration orders of the sets of strings the menu iterates, which depend
\* on the string hash seed of the process and on how the set was built:
\* EXPORT_FORMATS, the options {"y", "n"}, the directory options
\* {"1", "2", "3"} and the keys of format_options.
HashOrders ==
    [formats : Orderings(EXPORT_FORMATS), yes_no : Orderings({"y", "n"}),
     digits : Orderings({"1", "2", "3"}), keys : Orderings({"1", "2", "3"})]

\* ", ".join(valid_options)
RECURSIVE JoinOptions(_)
JoinOptions(options) ==
    IF Len(options) = 1 THEN options[1] ELSE options[1] \o ", " \o JoinOptions(Tail(options))

\* print(f"Invalid choice. Options: {', '.join(valid_options)}")
InvalidChoice(order) == Line("Invalid choice. Options: " \o JoinOptions(order))

\* get_user_input at a prompt of the menu, the options iterated in this
\* order: the answer (None when input() raises EOFError), the lines left and
\* the lines printed.
Ask(lines, default, order) ==
    LET r == get_user_input(lines, Some(<<default>>),
                            Some({<<order[i]>> : i \in 1..Len(order)}))
    IN [answer |-> r.returned,
        rest |-> SubSeq(lines, r.read + 1, Len(lines)),
        printed |-> [k \in 1..r.invalid |-> InvalidChoice(order)]]

\* The search term: input(...).strip(), asked again while it is empty.
RECURSIVE ReadSearchTerm(_)
ReadSearchTerm(lines) ==
    IF lines = <<>> THEN [answer |-> None, rest |-> <<>>]
    ELSE IF Strip(Head(lines)) # <<>>
    THEN [answer |-> Some(Strip(Head(lines))), rest |-> Tail(lines)]
    ELSE ReadSearchTerm(Tail(lines))

\* The path of the root of the tree, typed as one token.
RootPath == "@ROOT@"

\* A directory that exists outside the tree: the script location, the
\* current working directory.
Elsewhere == -1

\* Path(typed).resolve() when it exists and is a directory, 0 when it does
\* not; the empty path resolves to the current working directory.
DirectoryAt(text) ==
    CASE text = <<RootPath>> -> 1
      [] text = <<>> -> Elsewhere
      [] OTHER -> 0

\* The custom path: asked again while it is not an existing directory.
RECURSIVE ReadDirectory(_)
ReadDirectory(lines) ==
    IF lines = <<>> THEN [answer |-> None, rest |-> <<>>]
    ELSE IF DirectoryAt(Strip(Head(lines))) # 0
    THEN [answer |-> Some(DirectoryAt(Strip(Head(lines)))), rest |-> Tail(lines)]
    ELSE ReadDirectory(Tail(lines))

\* The directories to exclude: one name a line, up to a blank line.
RECURSIVE ReadExcludes(_)
ReadExcludes(lines) ==
    IF lines = <<>> THEN [eof |-> TRUE, names |-> {}, rest |-> <<>>]
    ELSE IF Strip(Head(lines)) = <<>>
    THEN [eof |-> FALSE, names |-> {}, rest |-> Tail(lines)]
    ELSE LET r == ReadExcludes(Tail(lines))
         IN [r EXCEPT !.names = @ \cup {Strip(Head(lines))[1]}]

Digits == <<"0", "1", "2", "3", "4", "5", "6", "7", "8", "9">>
IsDigit(c) == \E d \in 1..Len(Digits) : Digits[d] = c

\* int(text) succeeds: digits, with or without a sign.
IsNumber(text) ==
    /\ text # <<>>
    /\ \A i \in 2..Len(text) : IsDigit(text[i])
    /\ \/ IsDigit(text[1])
       \/ text[1] \in {"-", "+"} /\ Len(text) > 1

RECURSIVE NaturalOf(_)
NaturalOf(text) ==
    IF text = <<>> THEN 0
    ELSE 10 * NaturalOf(SubSeq(text, 1, Len(text) - 1))
         + (CHOOSE d \in 0..9 : Digits[d + 1] = text[Len(text)])

\* int(text)
IntOf(text) ==
    CASE text[1] = "-" -> 0 - NaturalOf(Tail(text))
      [] text[1] = "+" -> NaturalOf(Tail(text))
      [] OTHER -> NaturalOf(text)

\* The number of threads: asked again until it is a number within
\* MIN_THREADS..MAX_THREADS.
RECURSIVE ReadThreads(_)
ReadThreads(lines) ==
    IF lines = <<>> THEN [answer |-> None, rest |-> <<>>, printed |-> <<>>]
    ELSE LET text == Strip(Head(lines))
         IN IF IsNumber(text) /\ IntOf(text) \in MIN_THREADS..MAX_THREADS
            THEN [answer |-> Some(IntOf(text)), rest |-> Tail(lines), printed |-> <<>>]
            ELSE LET r == ReadThreads(Tail(lines))
                 IN [r EXCEPT !.printed =
                         <<Line(IF IsNumber(text) THEN "Please enter a number between"
                                ELSE "Please enter a valid number.")>> \o @]

\* What interactive_menu does: raises EOFError, or returns the parameters.
MenuRaises(lines_printed) == [eof |-> TRUE, params |-> None, printed |-> lines_printed]
MenuReturns(lines_printed, q) == [eof |-> FALSE, params |-> Some(q), printed |-> lines_printed]

\* The answers before any is given.
NoAnswers ==
    [search_term |-> <<>>, directory |-> 0, case_sensitive |-> FALSE, whole_word |-> FALSE,
     use_regex |-> FALSE, exclude |-> {}, threads |-> None, include_pdf |-> TRUE,
     export_format |-> None]

\* pattern.endswith("pdf")
EndsWithPdf(pattern) == pattern[Len(pattern)] = "*.pdf"

\* The dictionary interactive_menu returns.
MenuResult(got) ==
    LET Kept(pattern) == got.include_pdf \/ ~EndsWithPdf(pattern)
    IN [search_term |-> got.search_term, case_sensitive |-> got.case_sensitive,
        whole_word |-> got.whole_word, use_regex |-> got.use_regex,
        threads |-> got.threads, directory |-> got.directory,
        file_patterns |-> Some(SelectSeq(DEFAULT_PATTERNS, Kept)),
        exclude |-> Some(got.exclude \cup EXCLUDED_DIRS),
        export_format |-> got.export_format]

FormatLabel(fmt) ==
    CASE fmt = "html" -> "HTML (with highlighted matches)"
      [] fmt = "markdown" -> "Markdown"
      [] fmt = "txt" -> "Plain Text"

\* interactive_menu from the export question on: the formats are numbered
\* in the iteration order of EXPORT_FORMATS.
MenuExport(got, lines, before, h) ==
    LET asked == Ask(lines, "n", h.yes_no)
        p1 == before \o asked.printed
        p2 == p1 \o <<Line("Export formats:")>>
                 \o [i \in 1..Len(h.formats) |->
                        Line(Digits[i + 1] \o ". " \o FormatLabel(h.formats[i]))]
        choice == Ask(asked.rest, "1", h.keys)
    IN IF ~asked.answer.some THEN MenuRaises(p1)
       ELSE IF asked.answer.v # <<"y">> THEN MenuReturns(p1, MenuResult(got))
       ELSE IF ~choice.answer.some THEN MenuRaises(p2 \o choice.printed)
       ELSE MenuReturns(p2 \o choice.printed,
                        MenuResult([got EXCEPT !.export_format =
                                        Some(h.formats[IntOf(choice.answer.v)])]))

\* interactive_menu from the threads question on.
MenuThreads(got, lines, before, h) ==
    LET asked == Ask(lines, "n", h.yes_no)
        p1 == before \o asked.printed
        custom == asked.answer.v = <<"y">>
        typed == ReadThreads(asked.rest)
        p2 == IF custom THEN p1 \o typed.printed ELSE p1
        pdf == Ask(IF custom THEN typed.rest ELSE asked.rest, "y", h.yes_no)
    IN IF ~asked.answer.some THEN MenuRaises(p1)
       ELSE IF custom /\ ~typed.answer.some THEN MenuRaises(p2)
       ELSE IF ~pdf.answer.some THEN MenuRaises(p2 \o pdf.printed)
       ELSE MenuExport([got EXCEPT !.threads = IF custom THEN typed.answer ELSE None,
                                   !.include_pdf = pdf.answer.v = <<"y">>],
                       pdf.rest, p2 \o pdf.printed, h)

\* interactive_menu from the matching options on: case, whole words, regex,
\* then the directories to exclude.
MenuOptions(got, lines, before, h) ==
    LET case == Ask(lines, "n", h.yes_no)
        p1 == before \o case.printed
        word == Ask(case.rest, "n", h.yes_no)
        p2 == p1 \o word.printed
        regex == Ask(word.rest, "n", h.yes_no)
        p3 == p2 \o regex.printed
        p4 == Append(p3, Line("Enter directories to exclude"))
        excluded == ReadExcludes(regex.rest)
    IN IF ~case.answer.some THEN MenuRaises(p1)
       ELSE IF ~word.answer.some THEN MenuRaises(p2)
       ELSE IF ~regex.answer.some THEN MenuRaises(p3)
       ELSE IF excluded.eof THEN MenuRaises(p4)
       ELSE MenuThreads([got EXCEPT !.case_sensitive = case.answer.v = <<"y">>,
                                    !.whole_word = word.answer.v = <<"y">>,
                                    !.use_regex = regex.answer.v = <<"y">>,
                                    !.exclude = excluded.names],
                        excluded.rest, p4, h)

\* interactive.interactive_menu on the lines typed, in a process with these
\* iteration orders.
interactive_menu(lines, h) ==
    LET p1 == <<Line("===== Interactive Document Search Tool =====")>>
        term == ReadSearchTerm(lines)
        p2 == p1 \o << Line("Directory options:"), Line("1. Script location"),
                       Line("2. Current working directory"),
                       Line("3. Enter a custom path") >>
        choice == Ask(term.rest, "1", h.digits)
        p3 == p2 \o choice.printed
        custom == choice.answer.v \notin {<<"1">>, <<"2">>}
        path == ReadDirectory(choice.rest)
    IN IF ~term.answer.some THEN MenuRaises(p1)
       ELSE IF ~choice.answer.some THEN MenuRaises(p3)
       ELSE IF custom /\ ~path.answer.some THEN MenuRaises(p3)
       ELSE MenuOptions([NoAnswers EXCEPT !.search_term = term.answer.v,
                                          !.directory = IF custom THEN path.answer.v
                                                        ELSE Elsewhere],
                        IF custom THEN path.rest ELSE choice.rest,
                        Append(p3, Line("Search will be performed in")), h)

\* What is typed at each part of the menu; the first is the plain answer.
TermTyped == << << <<"a">> >>, << <<>>, <<" ", "a">> >> >>
DirectoryTyped ==
    << << <<"3">>, <<RootPath>> >>, << <<"3">>, <<"x">>, <<RootPath>> >>,
       << <<"9">>, <<"3">>, <<RootPath>> >> >>
OptionsTyped ==
    << << <<>>, <<>>, <<>> >>, << <<"Y">>, <<"y">>, <<"n">> >>, << <<"x">>, <<>>, <<>>, <<>> >> >>
ExcludeTyped == << << <<>> >>, << <<"docs">>, <<>> >> >>
ThreadsTyped ==
    << << <<>> >>, << <<"y">>, <<"2">> >>, << <<"y">>, <<"0">>, <<"x">>, <<"1">> >> >>
PdfTyped == << << <<>> >>, << <<"n">> >> >>
ExportTyped == << << <<>> >>, << <<"y">>, <<>> >>, << <<"y">>, <<"2">> >> >>

MenuParts ==
    <<TermTyped, DirectoryTyped, OptionsTyped, ExcludeTyped, ThreadsTyped, PdfTyped, ExportTyped>>

\* The sessions typed in full: at most MaxVaried parts differ from the plain
\* answer, and the directory is the root of the tree.
MaxVaried == 1

MenuSessions ==
    { Flatten([k \in 1..Len(MenuParts) |-> MenuParts[k][c[k]]]) :
        c \in { d \in [1..Len(MenuParts) -> 1..3] :
                  /\ \A k \in 1..Len(MenuParts) : d[k] <= Len(MenuParts[k])
                  /\ Cardinality({k \in 1..Len(MenuParts) : d[k] # 1}) <= MaxVaried } }

\* The lines on standard input: a session, or one that ends early.
MenuInputs == UNION { {SubSeq(s, 1, n) : n \in 0..Len(s)} : s \in MenuSessions }

\* What interactive_menu does on these inputs, under every iteration order.
MenuOutcomes == {interactive_menu(lines, h) : lines \in MenuInputs, h \in HashOrders}

\* interactive_main up to the call of execute_search: interactive_menu prints
\* the menu and returns the parameters typed, on which execute_search
\* starts, or raises EOFError when the input ends at a prompt.
RunMenu(before) ==
    \E menu \in MenuOutcomes :
        /\ printed' = before \o menu.printed
        /\ params' = IF menu.eof THEN params ELSE menu.params.v
        /\ pc' = IF menu.eof THEN "raised" ELSE "start"

\* main: interactive mode, interactive_main().
MainInteractive ==
    /\ pc = "main"
    /\ probe.fn = "main"
    /\ WantsInteractive(probe.args)
    /\ probe' = [probe EXCEPT !.calls = Append(@, CallOf("interactive_main", <<>>))]
    /\ RunMenu(<<>>)
    /\ UNCHANGED <<fs, env, searcher, walk_stack, files, listed, tasks, fanin,
                   all_matches, results, exports>>

\* What select_directory_gui returns: None when the window is cancelled or
\* closed, the folder of the window otherwise.
GuiAnswers == {None, Some(RootPath)}

\* exe.exe_main: the directory is chosen in a window; sys.argv is set and
\* interactive_main is called, or the program exits when there is none.
ExeMain ==
    /\ pc = "main"
    /\ probe.fn = "exe_main"
    /\ \E search_directory \in GuiAnswers :
           IF ~search_directory.some
           THEN /\ printed' = <<Line("Directory selection was cancelled. Exiting.")>>
                /\ pc' = "returned"
                /\ UNCHANGED <<probe, params>>
           ELSE /\ probe' = [probe EXCEPT
                                !.argv = <<"exe.py", "--directory", search_directory.v>>,
                                !.calls = Append(@, CallOf("interactive_main", <<>>))]
                /\ RunMenu(<<Line("(check mark) Search will be performed in")>>)
    /\ UNCHANGED <<fs, env, searcher, walk_stack, files, listed, tasks, fanin,
                   all_matches, results, exports>>

\* main: command-line mode, search_params = get_search_params(args).
MainGetSearchParams ==
    /\ pc = "main"
    /\ probe.fn = "main"
    /\ ~WantsInteractive(probe.args)
    /\ params' = get_search_params(probe.args)
    /\ probe' = [probe EXCEPT !.calls = Append(@, CallOf("get_search_params", probe.args))]
    /\ pc' = "main_cli"
    /\ UNCHANGED <<fs, env, searcher, walk_stack, files, listed, tasks, fanin,
                   all_matches, results, printed, exports>>

\* main: run_search(search_params) calls execute_search(search_params); the
\* steps of execute_search follow, and RunSearchReturns is its return.
MainRunSearch ==
    /\ pc = "main_cli"
    /\ probe' = [probe EXCEPT !.calls = Append(@, CallOf("run_search", params))]
    /\ pc' = "start"
    /\ UNCHANGED <<fs, env, params, searcher, walk_stack, files, listed, tasks, fanin,
                   all_matches, results, printed, exports>>

\* The lines display_results prints for the records from the k-th on: a
\* header when the file changes, then the record's section and context.
RECURSIVE DisplayFrom(_, _)
DisplayFrom(result_list, k) ==
    IF k > Len(result_list) THEN <<>>
    ELSE (IF k = 1 \/ result_list[k - 1].file_path # result_list[k].file_path
          THEN <<Msg("=== file ===", result_list[k].file_path, 0)>>
          ELSE <<>>)
         \o <<Msg("record", result_list[k].file_path, k)>>
         \o DisplayFrom(result_list, k + 1)

\* interactive.display_results
display_results(result_list) ==
    IF result_list # <<>>
    THEN <<Msg("Found across", Cardinality(FilePaths(result_list)), Len(result_list))>>
         \o DisplayFrom(result_list, 1)
    ELSE <<Line("No matches found.")>>

\* interactive_main after execute_search has returned: display_results(results).
DisplayResults ==
    /\ pc = "done"
    /\ Interactive
    /\ printed' = printed \o display_results(results)
    /\ pc' = "display"
    /\ UNCHANGED <<fs, env, params, searcher, probe, walk_stack, files, listed, tasks, fanin,
                   all_matches, results, exports>>

\* interactive_main: if search_params["export_format"] and results, export
\* the results and print the path; then the closing line.
InteractiveExport ==
    /\ pc = "display"
    /\ ExportWanted(params.export_format, results)
    /\ LET out == export(params.search_term, results, params.export_format.v)
       IN /\ exports' = exports \o out.written
          /\ printed' = printed
                 \o [k \in 1..Len(out.printed) |-> Line(out.printed[k])]
                 \o (IF out.path.some THEN <<Line("Results exported to")>> ELSE <<>>)
                 \o <<Line("Search completed")>>
    /\ results' = RecordsAfterExport(results, params.export_format.v)
    /\ pc' = "returned"
    /\ UNCHANGED <<fs, env, params, searcher, probe, walk_stack, files, listed, tasks, fanin,
                   all_matches>>

InteractiveSkipExport ==
    /\ pc = "display"
    /\ ~ExportWanted(params.export_format, results)
    /\ printed' = Append(printed, Line("Search completed"))
    /\ pc' = "returned"
    /\ UNCHANGED <<fs, env, params, searcher, probe, walk_stack, files, listed, tasks, fanin,
                   all_matches, results, exports>>

\* run_search: execute_search has returned.
RunSearchReturns ==
    /\ pc = "done"
    /\ ~Interactive
    /\ pc' = "returned"
    /\ UNCHANGED <<fs, env, params, searcher, probe, walk_stack, files, listed, tasks, fanin,
                   all_matches, results, printed, exports>>

\* The command lines of the sessions: every combination of the options in
\* command-line mode, the options all absent otherwise.
FlagsVary(args) ==
    /\ args.search_term = Some(<<"a">>)
    /\ args.directory = Some(<<"proj">>)
    /\ ~args.interactive

FlagsAbsent(args) ==
    /\ ~args.whole_word /\ args.threads = None /\ args.exclude = <<>>
    /\ ~args.pdf /\ args.export = None

MainArgs == {a \in ArgChoices : FlagsVary(a) \/ FlagsAbsent(a)}

\* The program is entered through main with a parsed command line, or
\* through exe_main.
InitMain ==
    /\ fs \in {TreeProject, TreeNoMatch}
    /\ env \in Environments
    /\ params = IdleParams
    /\ searcher = NoSearcher
    /\ probe \in {[called |-> TRUE, fn |-> "main", args |-> a, calls |-> <<>>] :
                    a \in MainArgs}
                 \cup {[called |-> TRUE, fn |-> "exe_main", argv |-> <<"exe.py">>,
                        calls |-> <<>>]}
    /\ pc = "main"
    /\ walk_stack = <<>>
    /\ files = <<>>
    /\ listed = {}
    /\ tasks = <<>>
    /\ fanin = NoFanIn
    /\ all_matches = <<>>
    /\ results = <<>>
    /\ printed = <<>>
    /\ exports = <<>>

NextMain ==
    \/ MainInteractive
    \/ ExeMain
    \/ MainGetSearchParams
    \/ MainRunSearch
    \/ Next
    \/ RunSearchReturns
    \/ DisplayResults
    \/ InteractiveExport
    \/ InteractiveSkipExport

SpecMain == InitMain /\ [][NextMain]_vars

(***************************************************************************)
(* Properties of the matcher.                                              *)
(***************************************************************************)
ProbeSpans == {probe.match_positions[i] : i \in 1..Len(probe.match_positions)}

\* C1: in whole-word mode every span returned by _find_matches_in_text is
\* delimited by word boundaries: a span that starts with a word character is
\* not preceded by a word character, and a span that ends with a word
\* character is not followed by one.
C1_WholeWordSpansDelimited ==
    (probe.called /\ searcher.whole_word) =>
        \A m \in ProbeSpans :
            m[1] < m[2] =>
                /\ WordAt(probe.text, m[1] + 1) => ~WordAt(probe.text, m[1])
                /\ WordAt(probe.text, m[2]) => ~WordAt(probe.text, m[2] + 1)

\* An occurrence of a literal term at offset p of a text: the slice of the
\* term's length at p equals the term (up to letter case when fold), and in
\* whole-word mode the slice lies between word boundaries.
Occurs(term, text, p, fold, whole_word) ==
    /\ p >= 0
    /\ p + Len(term) <= Len(text)
    /\ IF fold
       THEN LowerStr(Slice(text, p, p + Len(term))) = LowerStr(term)
       ELSE Slice(text, p, p + Len(term)) = term
    /\ whole_word => (AtBoundary(text, p) /\ AtBoundary(text, p + Len(term)))

\* C2: for a literal term, with case_sensitive false every occurrence of the
\* term up to letter case is matched (it is a returned span or overlaps one
\* that starts before it) and the text is reported as found; with
\* case_sensitive true every returned span spells the term exactly, so an
\* occurrence that differs in the case of a letter is not matched.  In every
\* mode the case-insensitive result is the case-sensitive result on the
\* lower-cased term and text.
C2_CaseFolding ==
    probe.called =>
        LET term == searcher.search_term
            text == probe.text
            fold == ~searcher.case_sensitive
            ww == searcher.whole_word
        IN /\ ~searcher.use_regex =>
                /\ \A p \in 0..Len(text) :
                       Occurs(term, text, p, fold, ww) =>
                           /\ probe.found
                           /\ \E m \in ProbeSpans : m[1] <= p /\ p < m[2]
                /\ \A m \in ProbeSpans :
                       /\ m[2] - m[1] = Len(term)
                       /\ Occurs(term, text, m[1], fold, ww)
                /\ probe.found <=> \E p \in 0..Len(text) : Occurs(term, text, p, fold, ww)
           /\ fold =>
                probe.match_positions =
                    find_matches_in_text(
                        compile_pattern(LowerStr(term), TRUE, ww, searcher.use_regex),
                        LowerStr(text))

\* C2 witness: a case-insensitive literal search has matched an occurrence
\* whose letter case differs from the term's.
C2_Witness ==
    /\ probe.called
    /\ ~searcher.case_sensitive
    /\ ~searcher.use_regex
    /\ \E m \in ProbeSpans :
           /\ Slice(probe.text, m[1], m[2]) # searcher.search_term
           /\ LowerStr(Slice(probe.text, m[1], m[2])) = LowerStr(searcher.search_term)

(***************************************************************************)
(* Properties of the collector.                                            *)
(***************************************************************************)
Count(seq, x) == Cardinality({i \in 1..Len(seq) : seq[i] = x})

\* The proper ancestors of a node, up to the root.
RECURSIVE Ancestors(_, _)
Ancestors(tree, n) ==
    IF tree[n].parent = 0 THEN {}
    ELSE {tree[n].parent} \cup Ancestors(tree, tree[n].parent)

Root == params.directory
Collected == pc \in {"pool", "summary", "export", "done", "raised"}
SingleSegment == \A i \in 1..Len(FilePatterns) : Len(FilePatterns[i]) = 1
ExcludedNodes == {n \in 1..Len(fs) : fs[n].isdir /\ fs[n].name \in ExcludeDirs}

\* C3, for every pattern list and the root included: no directory whose name
\* is in the exclusion set is ever listed, and no collected path has an
\* ancestor below the root whose name is in the exclusion set.
C3_ExcludedNeverListed ==
    /\ listed \cap ExcludedNodes = {}
    /\ \A i \in 1..Len(files) : (Ancestors(fs, files[i]) \ {Root}) \cap ExcludedNodes = {}

\* C3, for file-name patterns (one path segment): no directory below
\* the root whose name is in the exclusion set is ever listed, and no collected
\* path has an ancestor below the root whose name is in the exclusion set.
C3_ExcludedBelowRootNeverListed ==
    SingleSegment =>
        /\ (listed \ {Root}) \cap ExcludedNodes = {}
        /\ \A i \in 1..Len(files) :
               (Ancestors(fs, files[i]) \ {Root}) \cap ExcludedNodes = {}

\* C3 witness: the collection is over, an excluded directory below the root
\* holds a file that matches a pattern, and neither was touched.
C3_Witness ==
    /\ Collected
    /\ SingleSegment
    /\ \E n \in 1..Len(fs) :
           /\ ~fs[n].isdir
           /\ fs[n].parent \in ExcludedNodes \ {Root}
           /\ \E i \in 1..Len(FilePatterns) : SegMatches(FilePatterns[i][1], fs[n].name)
           /\ fs[n].parent \notin listed
           /\ Count(files, n) = 0
    /\ files # <<>>

\* The directories os.walk visits: the root, and every directory reached from
\* it through directories whose names are not excluded.
VisitedDirs ==
    {d \in 1..Len(fs) :
        /\ fs[d].isdir
        /\ d # Root => fs[d].name \notin ExcludeDirs
        /\ \A a \in Ancestors(fs, d) \ {Root} : fs[a].name \notin ExcludeDirs}

\* How many times the globs of the visited directories yield path f.
TimesGlobbed(f) ==
    Cardinality({t \in VisitedDirs \X (1..Len(FilePatterns)) \X (1..Len(fs)) :
                    /\ t[3] <= Len(Glob(fs, t[1], FilePatterns[t[2]]))
                    /\ Glob(fs, t[1], FilePatterns[t[2]])[t[3]] = f})

\* How many of the configured file-name patterns match the name of f.
PatternsMatching(f) ==
    Cardinality({i \in 1..Len(FilePatterns) : SegMatches(FilePatterns[i][1], fs[f].name)})

\* The records one search of file f returns.
OneSearch(f) == process_file(searcher.pattern, fs, f, env).matches

\* _collect_files has just returned: nothing has run since.
JustCollected ==
    \/ pc = "raised"
    \/ pc = "summary" /\ files = <<>>
    \/ pc = "pool" /\ \A i \in 1..Len(tasks) : tasks[i].state = "pending"

\* C9: the collector does not deduplicate.  The list _collect_files returns
\* holds a path once for every (visited directory, pattern) whose glob yields
\* it, in walk order, so a file in a visited directory that k of the file-name
\* patterns match is collected k times; it is submitted k times, and every
\* record one search of it returns is k times in the list search_recursive
\* returns.
C9_NoDeduplication ==
    /\ JustCollected =>
           /\ \A f \in 1..Len(fs) :
                  /\ Count(files, f) = TimesGlobbed(f)
                  /\ (SingleSegment /\ f # Root) =>
                         Count(files, f) = IF fs[f].parent \in VisitedDirs
                                           THEN PatternsMatching(f) ELSE 0
           /\ \A i, j \in 1..Len(files) :
                  \* walk order: the entries of a directory visited earlier come first
                  (i < j /\ fs[files[i]].parent # fs[files[j]].parent /\ SingleSegment) =>
                      \/ fs[files[i]].parent \in Ancestors(fs, files[j])
                      \/ fs[files[i]].parent < fs[files[j]].parent
    /\ (pc = "pool" /\ AllSubmitted) \/ pc \in {"summary", "export", "done"} =>
           \A f \in 1..Len(fs) :
               Count([i \in 1..Len(tasks) |-> tasks[i].file], f) = Count(files, f)
    /\ pc = "summary" =>
           \A f \in {files[i] : i \in 1..Len(files)} :
               \A j \in 1..Len(OneSearch(f)) :
                   Count(results, OneSearch(f)[j])
                       = Count(files, f) * Count(OneSearch(f), OneSearch(f)[j])

\* C9 witness: a run has ended in which a file matched by two patterns was
\* collected twice and its records are twice in the result.
C9_Witness ==
    /\ pc = "done"
    /\ SingleSegment
    /\ \E f \in 1..Len(fs) :
           /\ PatternsMatching(f) = 2
           /\ Count(files, f) = 2
           /\ OneSearch(f) # <<>>
           /\ Count(results, OneSearch(f)[1]) = 2

(***************************************************************************)
(* Properties of the export.                                               *)
(***************************************************************************)
\* The writes of an export file that carry a record's context.
IsEntry(w) == w.kind \in {"context", "entry"}
EntryWrites(writes) == SelectSeq(writes, IsEntry)

\* C4: for a non-empty result list and each of the formats html, markdown and
\* txt, the export file holds exactly one entry per SearchMatch of the list
\* the search phase returned, in list order: the i-th entry carries the file
\* and the location label of the i-th record, in html as a heading write
\* immediately followed by the context write; a run that asks for an export
\* and has records writes exactly one file.
C4_OneEntryPerRecord ==
    /\ \A e \in 1..Len(exports) :
           LET writes == exports[e].writes
               entries == EntryWrites(writes)
           IN /\ Len(entries) = Len(results)
              /\ \A i \in 1..Len(entries) :
                     /\ entries[i].file_path = results[i].file_path
                     /\ entries[i].label = results[i].page_or_section
              /\ \A k \in 1..Len(writes) :
                     /\ writes[k].kind = "context" =>
                            /\ k > 1
                            /\ writes[k - 1].kind = "heading"
                            /\ writes[k - 1].label = writes[k].label
                            /\ writes[k - 1].file_path = writes[k].file_path
                     /\ writes[k].kind = "heading" =>
                            /\ k < Len(writes)
                            /\ writes[k + 1].kind = "context"
    /\ (pc = "done" /\ params.export_format.some /\ results # <<>>) =>
           /\ Len(exports) = 1
           /\ exports[1].path.ext =
                  (CASE params.export_format.v = "html" -> "html"
                     [] params.export_format.v = "markdown" -> "md"
                     [] OTHER -> "txt")

\* C4 witness: a finished run exported, to markdown, three or more records of
\* which two are of the same file and two of different files.
C4_Witness ==
    /\ pc = "done"
    /\ Len(exports) = 1
    /\ exports[1].path.ext = "md"
    /\ Len(results) >= 3
    /\ \E i, j \in 1..Len(results) :
           i # j /\ results[i].file_path = results[j].file_path
    /\ Cardinality(FilePaths(results)) >= 2

\* C5: a run that produced no SearchMatch creates no export file, whatever
\* export format was requested, and prints "No matches found."; and export
\* called with an empty list returns None, writes no file and prints
\* "No results to export.".
C5_EmptyResultNoExport ==
    /\ (pc \in {"export", "done"} /\ results = <<>>) =>
           /\ exports = <<>>
           /\ \E k \in 1..Len(printed) : printed[k] = Line("No matches found.")
           /\ \A k \in 1..Len(printed) : printed[k].text # "Results exported to"
    /\ pc \in {"export", "done"} =>
           \A f \in EXPORT_FORMATS :
               export(params.search_term, <<>>, f)
                   = Exported(None, <<>>, <<"No results to export.">>)

\* C5 witness: a finished run with an export format searched files, none of
\* which had a matching unit.
C5_Witness ==
    /\ pc = "done"
    /\ params.export_format.some
    /\ tasks # <<>>
    /\ results = <<>>
    /\ exports = <<>>

(***************************************************************************)
(* Properties of the worker pool and of the adapters.                      *)
(***************************************************************************)
\* The text units the adapter of file f reads, in the order it reads them.
UnitsOf(f) ==
    IF LowerSuffix(Suffix(fs[f].name)) = ".docx"
    THEN ParagraphUnits(fs[f].doc) \o TableUnits(fs[f].doc)
    ELSE PageUnits(fs[f].doc)

\* The adapter of file f gets as far as opening the document.
AdapterRuns(f) ==
    \/ LowerSuffix(Suffix(fs[f].name)) = ".docx" /\ env.docx_available
    \/ LowerSuffix(Suffix(fs[f].name)) = ".pdf" /\ env.pdf_available

\* The document of file f opens as the type its suffix names.
Opens(f) ==
    /\ ~fs[f].doc.open_fails
    /\ \/ LowerSuffix(Suffix(fs[f].name)) = ".docx" /\ fs[f].doc.kind = "docx"
       \/ LowerSuffix(Suffix(fs[f].name)) = ".pdf" /\ fs[f].doc.kind = "pdf"

\* The extraction of file f raises an exception: on opening, or on a unit.
ExtractionRaises(f) ==
    /\ AdapterRuns(f)
    /\ \/ ~Opens(f)
       \/ \E k \in 1..Len(UnitsOf(f)) : UnitsOf(f)[k].unit.raises

Finished == {i \in 1..Len(tasks) : tasks[i].state \in {"returned", "done", "collected"}}
Returned == pc \in {"summary", "export", "done"}

\* C6: a file whose extraction raises, on opening or on a later unit after
\* earlier units matched, contributes no SearchMatch: its task returns the
\* empty list and no record of the returned list names it; the exception
\* stays inside process_file, so the pool runs every task to its end, and the
\* matches of every other collected file are returned.
C6_FailedFileContributesNothing ==
    /\ \A i \in Finished :
           ExtractionRaises(tasks[i].file) =>
               /\ tasks[i].outcome.matches = <<>>
               /\ tasks[i].outcome.printed # <<>>
    /\ Returned =>
           /\ \A k \in 1..Len(results) : ~ExtractionRaises(results[k].file_path)
           /\ \A i \in 1..Len(tasks) :
                  /\ tasks[i].state = "collected"
                  /\ ~ExtractionRaises(tasks[i].file) =>
                         \A j \in 1..Len(tasks[i].outcome.matches) :
                             \E k \in 1..Len(results) :
                                 results[k] = tasks[i].outcome.matches[j]

\* The number of records equal to r in the lists of the tasks of set S among
\* the first n tasks.
RECURSIVE ReturnedAmong(_, _, _)
ReturnedAmong(S, r, n) ==
    IF n = 0 THEN 0
    ELSE (IF n \in S THEN Count(tasks[n].outcome.matches, r) ELSE 0)
         + ReturnedAmong(S, r, n - 1)

ReturnedBy(S, r) == ReturnedAmong(S, r, Len(tasks))

\* The records any task has returned.
TaskRecords ==
    UNION {{tasks[i].outcome.matches[j] : j \in 1..Len(tasks[i].outcome.matches)} :
             i \in 1..Len(tasks)}

\* The tasks the as_completed loop has consumed.
CollectedTasks == {i \in 1..Len(tasks) : tasks[i].state = "collected"}

\* C7: search_recursive submits exactly one process_file task per entry of
\* the collected list, each task returns what process_file returns for its
\* file, and under every interleaving the list accumulated (and then
\* returned) is, as a multiset, the union of the lists of the tasks consumed
\* so far (in the end: of all of them): nothing lost, nothing duplicated.
C7_FanInIsMultisetUnion ==
    /\ Len(tasks) <= Len(files)
    /\ \A i \in 1..Len(tasks) : tasks[i].file = files[i]
    /\ (fanin.begun \/ (Returned /\ files # <<>>)) => Len(tasks) = Len(files)
    /\ \A i \in Finished :
           tasks[i].outcome = process_file(searcher.pattern, fs, tasks[i].file, env)
    /\ pc = "pool" =>
           /\ \A r \in TaskRecords \cup {all_matches[k] : k \in 1..Len(all_matches)} :
                  Count(all_matches, r) = ReturnedBy(CollectedTasks, r)
    /\ Returned =>
           /\ CollectedTasks = 1..Len(tasks)
           /\ \A r \in TaskRecords \cup {results[k] : k \in 1..Len(results)} :
                  Count(results, r) = ReturnedBy(1..Len(tasks), r)

\* C7 witness: a run of two or more tasks returned records in an order other
\* than the order of submission.
C7_Witness ==
    /\ pc = "done"
    /\ Len(tasks) >= 2
    /\ tasks[1].file # tasks[2].file
    /\ \E i, j \in 1..Len(results) :
           /\ i < j
           /\ results[i].file_path = tasks[2].file
           /\ results[j].file_path = tasks[1].file

\* C8, for every supplied count: at most pool-size process_file calls run at
\* once, and the pool size is the caller's thread count whenever one is
\* supplied and min(32, cpu_count + 4), with 4 for an unknown cpu_count,
\* otherwise.
C8_PoolSizeIsThreadCount ==
    /\ pc = "pool" => Cardinality(Running) <= searcher.max_workers
    /\ searcher.made =>
           searcher.max_workers =
               IF params.threads.some THEN params.threads.v
               ELSE Min(32, (IF env.cpu_count.some THEN env.cpu_count.v ELSE 4) + 4)

\* C8, by the sign of the supplied count: at most pool-size process_file
\* calls run at once; the pool size is the caller's thread count when a
\* positive one is supplied and min(32, cpu_count + 4), with 4 for an unknown
\* cpu_count, when none or 0 is supplied; with a negative count no pool is
\* created and no task runs.
C8_PoolSizeBounded ==
    /\ pc = "pool" =>
           /\ searcher.max_workers > 0
           /\ Cardinality(Running) <= searcher.max_workers
    /\ searcher.made =>
           searcher.max_workers =
               IF params.threads.some /\ params.threads.v # 0 THEN params.threads.v
               ELSE Min(32, (IF env.cpu_count.some THEN env.cpu_count.v ELSE 4) + 4)
    /\ (searcher.made /\ params.threads.some /\ params.threads.v < 0) =>
           /\ tasks = <<>>
           /\ pc \in {"collect", "raised", "summary", "export", "done"}
           /\ pc \in {"summary", "export", "done"} => files = <<>>
    /\ pc = "raised" => params.threads.some /\ params.threads.v < 0

\* C8 witness: every worker of the pool is busy while a task waits.
C8_Witness ==
    /\ pc = "pool"
    /\ Cardinality(Running) = searcher.max_workers
    /\ \E i \in 1..Len(tasks) : tasks[i].state = "pending"

\* The document of file f is scanned from its first unit to its last without
\* an exception.
ScannedWithoutError(f) == AdapterRuns(f) /\ Opens(f) /\ ~ExtractionRaises(f)

\* The records of a list that carry a label.
WithLabel(matches, label) ==
    {j \in 1..Len(matches) : matches[j].page_or_section = label}

\* The position of a unit among the units of its document: paragraphs come
\* before table cells; tables, rows and columns count in reading order.
Precedes(l1, l2) ==
    \/ l1.kind = "Paragraph" /\ l2.kind = "Table"
    \/ /\ l1.kind = l2.kind
       /\ \E k \in 1..Len(l1.n) :
              /\ l1.n[k] < l2.n[k]
              /\ \A h \in 1..(k - 1) : l1.n[h] = l2.n[h]

\* The paragraphs, table cells and pages of a document with their 1-based
\* positions, as sets of <<label, unit>>.
BodyParagraphs(doc) ==
    {<<Label("Paragraph", <<i>>), doc.paragraphs[i]>> : i \in 1..Len(doc.paragraphs)}
TableCells(doc) ==
    UNION {UNION {{<<Label("Table", <<t, r, c>>), doc.tables[t][r][c]>> :
                     c \in 1..Len(doc.tables[t][r])} :
                  r \in 1..Len(doc.tables[t])} :
           t \in 1..Len(doc.tables)}
Pages(doc) == {<<Label("Page", <<n>>), doc.pages[n]>> : n \in 1..Len(doc.pages)}

\* For every finished task of a document scanned without error: each unit
\* that must have a record has exactly one, with the unit's full text as
\* context, and the other units have none; every record is of a unit; the
\* records are in document order.  A paragraph or table cell must have a
\* record when its text has a match; so must a page, but when skip_empty_pages
\* only if its text is not empty.
RecordPerUnit(skip_empty_pages) ==
    \A i \in Finished :
        LET f == tasks[i].file
            doc == fs[f].doc
            matches == tasks[i].outcome.matches
            units == IF doc.kind = "docx" THEN BodyParagraphs(doc) \cup TableCells(doc)
                     ELSE Pages(doc)
            Due(u) == /\ find_matches_in_text(searcher.pattern, u[2].text) # <<>>
                      /\ (doc.kind = "pdf" /\ skip_empty_pages) => u[2].text # <<>>
        IN ScannedWithoutError(f) =>
               /\ \A u \in units :
                      IF Due(u)
                      THEN /\ Cardinality(WithLabel(matches, u[1])) = 1
                           /\ \A j \in WithLabel(matches, u[1]) :
                                  /\ matches[j].context = u[2].text
                                  /\ matches[j].file_path = f
                      ELSE WithLabel(matches, u[1]) = {}
               /\ \A j \in 1..Len(matches) :
                      \E u \in units : u[1] = matches[j].page_or_section
               /\ \A j, k \in 1..Len(matches) :
                      j < k => Precedes(matches[j].page_or_section,
                                        matches[k].page_or_section)

\* C10, for every unit: in a document scanned without error every paragraph,
\* table cell and page whose text contains a match has exactly one
\* SearchMatch, with the unit's text and 1-based label, and no other unit has
\* one; paragraph records precede table records.
C10_OneRecordPerMatchingUnit == RecordPerUnit(FALSE)

\* C10, for non-empty pages: the same, except that a PDF page has a record
\* only if, besides containing a match, its extracted text is not empty.
C10_OneRecordPerMatchingNonEmptyPage == RecordPerUnit(TRUE)

\* C10 witness: a PDF scanned without error has an empty page that the pattern
\* matches, and a record for another of its pages.
C10_Witness ==
    \E i \in Finished :
        /\ ScannedWithoutError(tasks[i].file)
        /\ fs[tasks[i].file].doc.kind = "pdf"
        /\ \E n \in 1..Len(fs[tasks[i].file].doc.pages) :
               fs[tasks[i].file].doc.pages[n].text = <<>>
        /\ find_matches_in_text(searcher.pattern, <<>>) # <<>>
        /\ tasks[i].outcome.matches # <<>>

\* The header and footer paragraphs of the sections of a document, as a set of
\* <<section, "Header" or "Footer", paragraph, unit>>.
HeaderFooterParagraphs(doc) ==
    UNION {{<<s, "Header", p, doc.sections[s].header[p]>> :
               p \in 1..Len(doc.sections[s].header)}
           \cup {<<s, "Footer", p, doc.sections[s].footer[p]>> :
                    p \in 1..Len(doc.sections[s].footer)} :
           s \in 1..Len(doc.sections)}

\* C11: for every finished search of a word-processor document scanned without
\* error, every header or footer paragraph of every section whose text
\* matches the pattern has a SearchMatch of that file with the paragraph's
\* text as context.
C11_HeadersAndFootersScanned ==
    \A i \in Finished :
        LET f == tasks[i].file
            matches == tasks[i].outcome.matches
        IN (ScannedWithoutError(f) /\ fs[f].doc.kind = "docx") =>
               \A hf \in HeaderFooterParagraphs(fs[f].doc) :
                   (~hf[4].raises /\ search_text(searcher.pattern, hf[4].text)) =>
                       \E j \in 1..Len(matches) :
                           /\ matches[j].file_path = f
                           /\ matches[j].context = hf[4].text
                           /\ matches[j].page_or_section.kind \notin {"Paragraph", "Table"}

\* The library that reads file f was not found at import.
LibraryMissing(f) ==
    \/ LowerSuffix(Suffix(fs[f].name)) = ".docx" /\ ~env.docx_available
    \/ LowerSuffix(Suffix(fs[f].name)) = ".pdf" /\ ~env.pdf_available

\* An interpreter with both libraries.
FullEnvironment == [env EXCEPT !.docx_available = TRUE, !.pdf_available = TRUE]

\* C12: when the DOCX or the PDF library is unavailable, every file of that
\* type returns no record and raises nothing (it prints that the library is
\* not installed); a file of the other type returns what it returns when both
\* libraries are present, and its records are in the result; the missing
\* library never ends the run with an exception.
C12_MissingLibraryDegrades ==
    /\ \A i \in Finished :
           IF LibraryMissing(tasks[i].file)
           THEN /\ tasks[i].outcome.matches = <<>>
                /\ \A k \in 1..Len(tasks[i].outcome.printed) :
                       tasks[i].outcome.printed[k] # "Error processing"
                /\ tasks[i].outcome.printed # <<>>
           ELSE tasks[i].outcome
                    = process_file(searcher.pattern, fs, tasks[i].file, FullEnvironment)
    /\ Returned =>
           /\ \A k \in 1..Len(results) : ~LibraryMissing(results[k].file_path)
           /\ \A i \in 1..Len(tasks) :
                  ~LibraryMissing(tasks[i].file) =>
                      \A j \in 1..Len(tasks[i].outcome.matches) :
                          Count(results, tasks[i].outcome.matches[j]) >= 1
    /\ pc = "raised" => params.threads.some /\ params.threads.v < 0
    /\ (pc = "pool" /\ AllSubmitted /\ \A i \in 1..Len(tasks) : tasks[i].state = "collected") =>
           ENABLED PoolDone

\* C12 witness: a run without the PDF library finished; it searched a PDF
\* with a matching page and a DOCX, and returned records of the DOCX.
C12_Witness ==
    /\ pc = "done"
    /\ ~env.pdf_available
    /\ \E i \in 1..Len(tasks) :
           /\ LibraryMissing(tasks[i].file)
           /\ process_file(searcher.pattern, fs, tasks[i].file, FullEnvironment).matches # <<>>
    /\ results # <<>>

\* The file headers an export file writes for file f.
FileHeaders(writes, f) ==
    {k \in 1..Len(writes) : writes[k].kind = "file_header" /\ writes[k].file_path = f}

\* C13: every export of a run's result list is grouped by source document:
\* each file of the list has exactly one file header in the export file, and
\* all records of the file follow it before the next file header.
C13_OneGroupPerFile ==
    \A e \in 1..Len(exports) :
        LET writes == exports[e].writes
        IN \A f \in FilePaths(results) :
               /\ Cardinality(FileHeaders(writes, f)) = 1
               /\ \A k \in 1..Len(writes) :
                      (IsEntry(writes[k]) /\ writes[k].file_path = f) =>
                          \E h \in FileHeaders(writes, f) :
                              /\ h < k
                              /\ \A g \in (h + 1)..(k - 1) :
                                     writes[g].kind # "file_header"

\* str begins with the characters of prefix.
StartsWith(str, prefix) ==
    Len(str) >= Len(prefix) /\ SubSeq(str, 1, Len(prefix)) = prefix

\* The string with every <mark> and </mark> tag deleted.
RECURSIVE StripMarks(_)
StripMarks(str) ==
    IF str = <<>> THEN <<>>
    ELSE IF StartsWith(str, MarkOpen)
    THEN StripMarks(SubSeq(str, Len(MarkOpen) + 1, Len(str)))
    ELSE IF StartsWith(str, MarkClose)
    THEN StripMarks(SubSeq(str, Len(MarkClose) + 1, Len(str)))
    ELSE <<Head(str)>> \o StripMarks(Tail(str))

\* The escaped context from offset from on, with each of the spans, taken in
\* ascending order, wrapped in <mark> around the escaped text of the span.
RECURSIVE MarkedFrom(_, _, _)
MarkedFrom(context, spans, from) ==
    IF spans = <<>> THEN html_escape(Slice(context, from, Len(context)))
    ELSE html_escape(Slice(context, from, Head(spans)[1]))
         \o MarkOpen \o html_escape(Slice(context, Head(spans)[1], Head(spans)[2]))
         \o MarkClose \o MarkedFrom(context, Tail(spans), Head(spans)[2])

\* The records of a list in the order of the context writes of an html export.
HtmlContexts(writes) ==
    SelectSeq(writes, LAMBDA w : w.kind = "context")

\* C14: in the HTML export the context of every record is rendered with each
\* match position (start, end) as <mark> around exactly the escaped text of
\* context[start:end], and deleting the <mark> and </mark> tags from the
\* rendered context gives the HTML-escaped context.
C14_HighlightPreservesContext ==
    \A e \in 1..Len(exports) :
        exports[e].path.ext = "html" =>
            LET contexts == HtmlContexts(exports[e].writes)
            IN /\ Len(contexts) = Len(results)
               /\ \A i \in 1..Len(contexts) :
                      /\ StripMarks(contexts[i].text) = html_escape(results[i].context)
                      /\ contexts[i].text
                             = MarkedFrom(results[i].context, results[i].match_positions, 0)

(***************************************************************************)
(* Properties of the library called directly.                              *)
(***************************************************************************)
Called(fn) == probe.called /\ probe.fn = fn

\* C15: export with a non-empty list dispatches on the lower-cased format
\* name: "html" writes exactly the file of export_html, "markdown" and "md"
\* that of export_markdown, "text" and "txt" that of export_text, each once
\* and for the list as given; any other name returns None and writes nothing.
C15_ExportDispatch ==
    (Called("export") /\ probe.results # <<>>) =>
        LET expected ==
                CASE probe.format_type \in {"html", "HTML"} ->
                         <<export_html(probe.search_term, probe.results)>>
                  [] probe.format_type \in {"markdown", "Markdown", "md"} ->
                         <<export_markdown(probe.search_term, probe.results)>>
                  [] probe.format_type \in {"text", "txt", "TXT"} ->
                         <<export_text(probe.search_term, probe.results)>>
                  [] OTHER -> <<>>
        IN /\ probe.written = expected
           /\ probe.returned = IF expected = <<>> THEN None ELSE Some(expected[1].path)
           /\ \A k \in 1..Len(probe.written) :
                  Len(EntryWrites(probe.written[k].writes)) = Len(probe.results)

\* C15 witness: a list of two records was exported under the name "Markdown".
C15_Witness ==
    /\ Called("export")
    /\ probe.format_type = "Markdown"
    /\ Len(probe.results) = 2
    /\ Len(probe.written) = 1
    /\ probe.written[1].path.ext = "md"

\* C16: process_file dispatches on the extension compared without regard to
\* case: a .docx file is handled by one call of search_document and none of
\* search_pdf, a .pdf file by one call of search_pdf and none of
\* search_document, and any other file returns the empty list with no call.
C16_ProcessFileDispatch ==
    Called("process_file") =>
        LET f == probe.file_path
            suffix == Suffix(fs[f].name)
        IN CASE suffix \in {".docx", ".DOCX"} ->
                    /\ probe.calls = <<"search_document">>
                    /\ probe.returned = search_document(searcher.pattern, f, fs[f].doc,
                                                        env.docx_available)
             [] suffix \in {".pdf", ".PDF"} ->
                    /\ probe.calls = <<"search_pdf">>
                    /\ probe.returned = search_pdf(searcher.pattern, f, fs[f].doc,
                                                   env.pdf_available)
             [] OTHER ->
                    /\ probe.calls = <<>>
                    /\ probe.returned = Outcome(<<>>, <<>>)

\* C16 witness: a file named with an upper-case .PDF extension was searched
\* as a PDF and a record returned.
C16_Witness ==
    /\ Called("process_file")
    /\ Suffix(fs[probe.file_path].name) = ".PDF"
    /\ probe.calls = <<"search_pdf">>
    /\ probe.returned.matches # <<>>

\* The lines of the string wrap_text returned.
WrappedLines == SplitLines(probe.returned)

\* C17, for every line: every line of wrap_text(text, max_width) has length
\* at most max_width.
C17_LinesWithinWidth ==
    Called("wrap_text") =>
        \A k \in 1..Len(WrappedLines) : Len(WrappedLines[k]) <= probe.max_width

\* C17, for lines of more than one word: every line of
\* wrap_text(text, max_width) has length at most max_width unless it holds no
\* whitespace, that is, unless it is a single word that is longer than
\* max_width (or, for a negative max_width, the empty line).
C17_LinesWithinWidthOrOneWord ==
    Called("wrap_text") =>
        \A k \in 1..Len(WrappedLines) :
            \/ Len(WrappedLines[k]) <= probe.max_width
            \/ \A j \in 1..Len(WrappedLines[k]) : ~IsSpace(WrappedLines[k][j])

\* C17 witness: three words were wrapped to width 1; none fits with another.
C17_Witness ==
    /\ Called("wrap_text")
    /\ probe.text = <<"a", " ", "a", "a">>
    /\ probe.max_width = 1
    /\ WrappedLines = << <<"a">>, <<"a", "a">> >>

\* C18: sanitize_filename returns a string with none of the characters
\* \ / * ? : " < > | and no whitespace, of length at most max_length.
C18_SanitizedSafeAndShort ==
    Called("sanitize_filename") =>
        /\ \A k \in 1..Len(probe.returned) :
               /\ probe.returned[k] \notin {"\\", "/", "*", "?", ":", "\"", "<", ">", "|"}
               /\ probe.returned[k] \notin {" ", "\t", "\n"}
        /\ Len(probe.returned) <= probe.max_length

(***************************************************************************)
(* Properties of the entry point.                                          *)
(***************************************************************************)
\* main has chosen its mode and made the calls of that mode.
Dispatched == probe.fn = "main" /\ pc \notin {"main", "main_cli"}

\* The names of the calls main has made, in order.
CallNames == [k \in 1..Len(probe.calls) |-> probe.calls[k].fn]

\* C19, with missing meaning absent: main runs interactive mode once, and no
\* search, when the flag is set or the search term or the directory is None;
\* otherwise get_search_params(args) and then run_search on its result, once
\* each, and no interactive mode.
C19_MainDispatchOnMissing ==
    Dispatched =>
        IF \/ probe.args.interactive
           \/ ~probe.args.search_term.some
           \/ ~probe.args.directory.some
        THEN CallNames = <<"interactive_main">>
        ELSE /\ CallNames = <<"get_search_params", "run_search">>
             /\ probe.calls[1].arg = probe.args
             /\ probe.calls[2].arg = get_search_params(probe.args)

\* C19, with missing meaning absent or empty: main runs interactive mode
\* once, and no search, when the flag is set or the search term or the
\* directory is None or the empty string; otherwise get_search_params(args)
\* and then run_search on its result, once each, and no interactive mode.
C19_MainDispatchOnMissingOrEmpty ==
    Dispatched =>
        IF \/ probe.args.interactive
           \/ probe.args.search_term \in {None, Some(<<>>)}
           \/ probe.args.directory \in {None, Some(<<>>)}
        THEN CallNames = <<"interactive_main">>
        ELSE /\ CallNames = <<"get_search_params", "run_search">>
             /\ probe.calls[1].arg = probe.args
             /\ probe.calls[2].arg = get_search_params(probe.args)
             /\ params = get_search_params(probe.args)

\* C19 witness: main was given an empty search term, a directory and no flag,
\* and ran interactive mode.
C19_Witness ==
    /\ Dispatched
    /\ probe.args.search_term = Some(<<>>)
    /\ probe.args.directory = Some(<<"proj">>)
    /\ ~probe.args.interactive
    /\ CallNames = <<"interactive_main">>

(***************************************************************************)
(* Properties of the code-quality runner.                                  *)
(***************************************************************************)
\* Every check passed: Ruff, Black, Mypy and Bandit, as the runner judges them.
EveryCheckPassed ==
    /\ run_ruff(probe.ruff) = 0
    /\ black_success
    /\ probe.mypy = 0
    /\ probe.bandit = 0

\* C20: in the plain path and in the --ci-output path, the runner exits with
\* 2 and has run no tool when a required tool is missing; otherwise it exits
\* with 0 only if every check passed, and with 1 when a check failed or Black
\* would reformat files in check mode.
C20_ExitCodes ==
    (pc = "cq_exit" /\ ~probe.black_only) =>
        IF probe.missing # {}
        THEN probe.exit = Some(2) /\ probe.calls = <<>>
        ELSE /\ probe.exit = Some(0) => EveryCheckPassed
             /\ ~EveryCheckPassed => probe.exit = Some(1)

(***************************************************************************)
(* Properties of the thread count.                                         *)
(***************************************************************************)
\* C21: the size of the pool of a run is within MIN_THREADS..MAX_THREADS; a
\* supplied thread count outside that range is never the pool size.
C21_PoolSizeInRange ==
    pc = "pool" => searcher.max_workers \in MIN_THREADS..MAX_THREADS

(***************************************************************************)
(* Liveness of the pool.                                                   *)
(***************************************************************************)
\* The tasks of the collected files, submitted or still to be submitted,
\* whose process_file call never returns.
HungTasks == {i \in 1..Len(files) : process_file_hangs(fs, files[i], env)}

\* Every task whose call returns has been submitted, started and run to
\* completion.
OthersCompleted ==
    \A i \in 1..Len(files) :
        i \notin HungTasks => (i <= Len(tasks) /\ tasks[i].state \in {"done", "collected"})

\* C22, for every pool size: when the process_file call of one task never
\* returns, every other task is eventually started and run to completion.
C22_OthersEventuallyComplete ==
    (pc = "pool" /\ Cardinality(HungTasks) = 1) ~> OthersCompleted

\* C22, for a pool with a spare thread: when the process_file calls of fewer
\* tasks than the pool has threads never return, every other task is
\* eventually started and run to completion.
C22_OthersEventuallyCompleteWithSpareWorker ==
    (pc = "pool" /\ Cardinality(HungTasks) < searcher.max_workers) ~> OthersCompleted

\* C22 witness: one call hangs in a pool of two threads and every other task
\* has completed.
C22_Witness ==
    /\ pc = "pool"
    /\ searcher.max_workers = 2
    /\ Cardinality(HungTasks) = 1
    /\ Len(tasks) > 1
    /\ OthersCompleted
    /\ \E i \in HungTasks : i <= Len(tasks) /\ tasks[i].state = "running"

(***************************************************************************)
(* Order of the returned list.                                             *)
(***************************************************************************)
\* The coordinating thread takes the result of task i in this step.
Collects(i) == tasks[i].state = "done" /\ tasks'[i].state = "collected"

\* The tasks with records that finished before task i and are not yet taken.
FinishedBefore(i) ==
    {fanin.order[h] : h \in {k \in 1..Len(fanin.order) :
                               /\ \E n \in (k + 1)..Len(fanin.order) : fanin.order[n] = i
                               /\ tasks[fanin.order[k]].outcome.matches # <<>>}}

\* C23, by completion: the records of each task are appended to the list
\* whole and in the order the task produced them, and the records of a task
\* that completed earlier precede those of a task that completed later.
C23_CompletionOrder ==
    [][\A i \in 1..Len(tasks) :
          (Collects(i) /\ tasks[i].outcome.matches # <<>>) =>
              /\ all_matches' = all_matches \o tasks[i].outcome.matches
              /\ FinishedBefore(i) = {}]_vars

\* C23, by collection: the list changes only when the coordinating thread
\* takes a finished task, whose records are appended whole and in the order
\* process_file produced them; a task that was finished when as_completed was
\* called is taken in any order, every other task after all of those and in
\* completion order; the returned list is the accumulated one.
C23_CollectionOrder ==
    [][/\ \A i \in 1..Len(tasks) :
             Collects(i) =>
                 /\ all_matches' = all_matches
                        \o process_file(searcher.pattern, fs, tasks[i].file, env).matches
                 /\ \/ i \in fanin.early
                    \/ fanin.early = {} /\ Head(fanin.order) = i
       /\ all_matches' # all_matches => \E i \in 1..Len(tasks) : Collects(i)
       /\ results' # results => results' = all_matches]_vars

\* C23 witness: two tasks with records have been taken, the one submitted
\* later first.
C23_Witness ==
    /\ pc = "pool"
    /\ \E i, j \in 1..Len(tasks) :
          /\ i < j
          /\ tasks[i].file # tasks[j].file
          /\ tasks[i].outcome.matches # <<>>
          /\ tasks[i].state = "collected" /\ tasks[j].state = "collected"
          /\ all_matches = tasks[j].outcome.matches \o tasks[i].outcome.matches

(***************************************************************************)
(* Shared state of the threads.                                            *)
(***************************************************************************)
\* A worker thread takes a step: it starts a task, its process_file returns,
\* or it sets the future done.
WorkerStep ==
    \E i \in 1..Len(tasks) :
        \/ tasks[i].state = "pending" /\ tasks'[i].state = "running"
        \/ tasks[i].state = "running" /\ tasks'[i].state = "returned"
        \/ tasks[i].state = "returned" /\ tasks'[i].state = "done"

\* C24: the searcher's fields, the pattern among them, are set once, when
\* the searcher is made, to the pattern compiled from the search term, and
\* never change afterwards; a step of a worker changes neither a searcher
\* field nor the accumulated list nor any other local of the coordinating
\* thread (it writes its own future and standard output); the accumulated
\* list changes only when the coordinating thread takes a finished task.
C24_SharedStateReadOnly ==
    [][/\ searcher' # searcher =>
              /\ ~searcher.made /\ searcher'.made
              /\ searcher'.pattern = compile_pattern(params.search_term, params.case_sensitive,
                                                     params.whole_word, params.use_regex)
       /\ WorkerStep =>
              /\ UNCHANGED <<searcher, all_matches, results, files, listed, walk_stack,
                             params, pc, exports>>
              /\ \A j \in 1..Len(tasks) :
                     tasks'[j] # tasks[j] =>
                         tasks[j].state \in {"pending", "running", "returned"}
       /\ all_matches' # all_matches => \E i \in 1..Len(tasks) : Collects(i)]_vars

\* C24 witness: two workers run process_file at once while the coordinating
\* thread has already appended records to the list.
C24_Witness ==
    /\ pc = "pool"
    /\ Cardinality(Running) >= 2
    /\ all_matches # <<>>

(***************************************************************************)
(* Records after their creation.                                           *)
(***************************************************************************)
\* The records the adapter of a file produces.
Produced(f) ==
    LET matches == process_file(searcher.pattern, fs, f, env).matches
    IN {matches[k] : k \in 1..Len(matches)}

\* C25: every record of the accumulated and of the returned list is, field
\* by field, a record its file's adapter produced; and no step changes a
\* record: a finished task keeps its list, the accumulated list is only
\* extended, and the returned list stays as it is through the summary and the
\* export.
C25_RecordsUnchanged ==
    /\ [](/\ \A k \in 1..Len(all_matches) :
                all_matches[k] \in Produced(all_matches[k].file_path)
          /\ \A k \in 1..Len(results) : results[k] \in Produced(results[k].file_path))
    /\ [][/\ \A i \in 1..Len(tasks) :
                tasks[i].state \in {"returned", "done", "collected"} =>
                    tasks'[i].outcome = tasks[i].outcome
          /\ Len(all_matches') >= Len(all_matches)
          /\ \A k \in 1..Len(all_matches) : all_matches'[k] = all_matches[k]
          /\ pc \in {"summary", "export", "done"} => results' = results]_vars

\* C25 witness: the HTML exporter has written a file from a record with two
\* match positions.
C25_Witness ==
    /\ pc = "done"
    /\ params.export_format = Some("html")
    /\ exports # <<>>
    /\ \E k \in 1..Len(results) : Len(results[k].match_positions) >= 2

(***************************************************************************)
(* Properties of the prompts.                                              *)
(***************************************************************************)
\* The lines get_user_input rejects before it returns.
RejectedLines == SubSeq(probe.lines, 1, probe.returned.invalid)

\* C26: when valid_options is given, the value get_user_input returns is the
\* default, returned on an empty input, or a member of valid_options; every
\* rejected line prints one invalid-choice message and is followed by a new
\* prompt, and the first accepted line is the one returned.
C26_ReturnsDefaultOrOption ==
    (Called("get_user_input") /\ probe.valid_options.some /\ probe.returned.returned.some) =>
        LET r == probe.returned
            last == Strip(probe.lines[r.read])
        IN /\ r.read = r.invalid + 1
           /\ \A k \in 1..r.invalid :
                  /\ ~(Strip(probe.lines[k]) = <<>> /\ probe.default.some)
                  /\ Strip(probe.lines[k]) \notin probe.valid_options.v
           /\ \/ last = <<>> /\ probe.default.some /\ r.returned = probe.default
              \/ last \in probe.valid_options.v /\ r.returned = Some(last)

(***************************************************************************)
(* Properties of the defaults of search_recursive.                         *)
(***************************************************************************)
\* The files os.walk and the globs collect from the directories on the
\* stack with these patterns and exclusions.
RECURSIVE WalkFrom(_, _, _, _)
WalkFrom(tree, stack, file_patterns, exclude_dirs) ==
    IF stack = <<>> THEN <<>>
    ELSE GlobPatterns(tree, Head(stack), file_patterns)
         \o WalkFrom(tree,
                     Prune(tree, SubDirs(tree, Head(stack)), exclude_dirs) \o Tail(stack),
                     file_patterns, exclude_dirs)

\* The patterns and exclusions of a caller who falls back on the defaults
\* only for an omitted argument.
SuppliedPatterns ==
    IF params.file_patterns.some THEN params.file_patterns.v ELSE DEFAULT_PATTERNS
SuppliedExclude ==
    IF params.exclude.some THEN params.exclude.v ELSE EXCLUDED_DIRS

\* C27: search_recursive collects the files with the caller's patterns and
\* exclusion set whenever they are supplied, an empty exclusion set (which
\* excludes nothing) included, and with DEFAULT_PATTERNS and EXCLUDED_DIRS
\* only when the argument is omitted.
C27_SuppliedValuesUsed ==
    Collected => files = WalkFrom(fs, <<Root>>, SuppliedPatterns, SuppliedExclude)

\* The collection is the walk with the values search_recursive resolved.
C27_ResolvedValuesUsed ==
    Collected => files = WalkFrom(fs, <<Root>>, FilePatterns, ExcludeDirs)

(***************************************************************************)
(* Properties of the match positions of a record.                          *)
(***************************************************************************)
\* The adapters build a record for a text exactly when _search_text finds
\* the pattern in it, with the text as context and the list returned by
\* _find_matches_in_text as match_positions.
RecordBuilt == probe.called /\ probe.found

SpansInRange ==
    \A i \in 1..Len(probe.match_positions) :
        LET m == probe.match_positions[i]
        IN 0 <= m[1] /\ m[1] <= m[2] /\ m[2] <= Len(probe.text)

SpansDisjoint ==
    \A i \in 1..(Len(probe.match_positions) - 1) :
        probe.match_positions[i][2] <= probe.match_positions[i + 1][1]

\* Every span is a match of the pattern, and every offset at which the
\* pattern matches starts a span or lies inside one.
SpansAreTheMatches ==
    /\ \A i \in 1..Len(probe.match_positions) :
           LET m == probe.match_positions[i]
           IN \E must_advance \in BOOLEAN :
                  MatchAt(searcher.pattern, probe.text, m[1], must_advance) = m[2]
    /\ \A p \in 0..Len(probe.text) :
           MatchAt(searcher.pattern, probe.text, p, FALSE) >= 0 =>
               \E m \in ProbeSpans : m[1] = p \/ (m[1] < p /\ p < m[2])

\* C28: the match_positions of every record is a non-empty list of pairs
\* 0 <= start <= end <= len(context) that holds all non-overlapping matches
\* of the pattern in the context from left to right, strictly ascending by
\* start, no two pairs overlapping.
C28_PositionsStrictlyAscending ==
    RecordBuilt =>
        /\ probe.match_positions # <<>>
        /\ SpansInRange
        /\ SpansDisjoint
        /\ SpansAreTheMatches
        /\ \A i \in 1..(Len(probe.match_positions) - 1) :
               probe.match_positions[i][1] < probe.match_positions[i + 1][1]

\* C28, with the empty matches of a regular expression: the pairs are
\* ascending by start and no two overlap, an empty match may start where
\* the next, non-empty, match starts, and the starts are strictly ascending
\* when no match is empty.
C28_PositionsAscendingAndDisjoint ==
    RecordBuilt =>
        /\ probe.match_positions # <<>>
        /\ SpansInRange
        /\ SpansDisjoint
        /\ SpansAreTheMatches
        /\ \A i \in 1..(Len(probe.match_positions) - 1) :
               LET m == probe.match_positions[i]
                   n == probe.match_positions[i + 1]
               IN /\ m[1] <= n[1]
                  /\ m[1] = n[1] => (m[2] = m[1] /\ n[2] > n[1])
                  /\ m[2] > m[1] => m[1] < n[1]

C28_Witness ==
    /\ RecordBuilt
    /\ Len(probe.match_positions) >= 3
    /\ \E i \in 1..(Len(probe.match_positions) - 1) :
           probe.match_positions[i][1] = probe.match_positions[i + 1][1]
    /\ \E i \in 1..Len(probe.match_positions) :
           probe.match_positions[i][2] > probe.match_positions[i][1]

(***************************************************************************)
(* Properties of a session.                                                *)
(***************************************************************************)
ExportedLines == {k \in 1..Len(printed) : printed[k] = Line("Results exported to")}

\* C29: an invocation that requests an export format and finds at least one
\* match performs the export once and reports one exported path, in
\* command-line mode and in interactive mode.
C29_ExportsOnce ==
    (pc = "returned" /\ ExportWanted(params.export_format, results)) =>
        /\ Len(exports) = 1
        /\ Cardinality(ExportedLines) = 1

\* In command-line mode the export is performed once.
C29_CommandLineExportsOnce ==
    (pc = "returned" /\ ~Interactive /\ ExportWanted(params.export_format, results)) =>
        /\ Len(exports) = 1
        /\ Cardinality(ExportedLines) = 1

(***************************************************************************)
(* Properties of the return of search_recursive.                           *)
(***************************************************************************)
\* Every extraction call on a file of the tree returns.
EveryExtractionTerminates ==
    \A f \in 1..Len(fs) : ~fs[f].isdir => ~process_file_hangs(fs, f, env)

\* search_recursive has returned or raised.
Terminated == pc \in {"summary", "export", "done", "raised"}

\* The records of the tasks of the first n files, in task order.
RECURSIVE RecordsOfTasks(_)
RecordsOfTasks(n) ==
    IF n = 0 THEN 0 ELSE RecordsOfTasks(n - 1) + Len(tasks[n].outcome.matches)

\* C30: search_recursive returns only after every submitted task has
\* completed and its result has been merged: from the summary on no task is
\* pending or running, the returned list holds the records of every task
\* and no longer changes; and when every extraction call terminates,
\* search_recursive terminates.
C30_ReturnsAfterAllMerged ==
    /\ [](Returned =>
            /\ \A i \in 1..Len(tasks) : tasks[i].state = "collected"
            /\ results = all_matches
            /\ Len(results) = RecordsOfTasks(Len(tasks)))
    /\ [][Returned => (results' = results /\ all_matches' = all_matches /\ tasks' = tasks)]_vars
    /\ ((pc = "start" /\ EveryExtractionTerminates) ~> Terminated)

C30_Witness ==
    /\ pc = "done"
    /\ Len(tasks) >= 2
    /\ searcher.max_workers >= 2
    /\ results # <<>>
    /\ exports # <<>>
    /\ EveryExtractionTerminates

====
